---------------------------- MODULE Spec2Model ----------------------------
(***************************************************************************)
(* Model of the file capture backend (src/src/video_capture/file.c): the   *)
(* ingestion worker thread, the consumer calling vidcap_file_grab and      *)
(* vidcap_file_done, the control-message deliverer and the should-exit     *)
(* callback, sharing one vidcap_state_lavf_decoder.                        *)
(*                                                                         *)
(* C doubles are modelled as exact rationals (numerator, denominator);     *)
(* a conversion to an integer truncates toward zero as in C.               *)
(* Text is a sequence of one-character strings, so that strstr, strcmp     *)
(* and strtol are computed on the characters.                              *)
(***************************************************************************)
EXTENDS Integers, Sequences, FiniteSets, TLC

(***************************** bounds *************************************)
\* packets in the source file
NumPackets == 3
\* packets in the video-only file of the runs checked under fairness
FairPackets == 3
\* control messages the deliverer sends during one run
MaxMsgs == 2
\* largest value of the queue=<len> option that is explored
MaxQueueOpt == 1
\* entries of vidcap_device_table
TableSize == 3
\* 1 / s->video_desc.fps, in clock ticks
PacePeriod == 2
\* last clock reading that is explored
MaxTime == 6
\* most items after the file name in a configuration string
MaxItems == 2

(************************ program constants *******************************)
FILE_DEFAULT_QUEUE_LEN == 1
\* AUDIO_RATIO = 1.05 as the rational AudioRatioNum / AudioRatioDen
AudioRatioNum == 21
AudioRatioDen == 20

RESPONSE_OK == "OK"
RESPONSE_BAD_REQUEST == "BAD_REQUEST"

(***************************** text ***************************************)
NUL == "\\0"
Digits == <<"0", "1", "2", "3", "4", "5", "6", "7", "8", "9">>
HexLetters == <<"a", "b", "c", "d", "e", "f">>

CharAt(t, i) == IF i \in 1..Len(t) THEN t[i] ELSE NUL

\* value of a digit character in bases up to 16, -1 for any other character
HexVal(c) ==
    IF \E i \in 1..10 : Digits[i] = c
    THEN (CHOOSE i \in 1..10 : Digits[i] = c) - 1
    ELSE IF \E i \in 1..6 : HexLetters[i] = c
         THEN (CHOOSE i \in 1..6 : HexLetters[i] = c) + 9
         ELSE -1

RECURSIVE SkipSpace(_, _)
SkipSpace(t, i) == IF CharAt(t, i) = " " THEN SkipSpace(t, i + 1) ELSE i

RECURSIVE ParseDigits(_, _, _, _)
ParseDigits(t, i, base, acc) ==
    LET d == HexVal(CharAt(t, i))
    IN  IF d >= 0 /\ d < base
        THEN ParseDigits(t, i + 1, base, acc * base + d)
        ELSE [val |-> acc, end |-> i]

\* strtol(t + from - 1, &endptr, 0): leading blanks, a sign, the base taken
\* from the prefix (0x: 16, 0: 8, else 10); end is the index endptr points to
strtol(t, from) ==
    LET i0   == SkipSpace(t, from)
        neg  == CharAt(t, i0) = "-"
        i1   == IF CharAt(t, i0) \in {"-", "+"} THEN i0 + 1 ELSE i0
        hex  == /\ CharAt(t, i1) = "0"
                /\ CharAt(t, i1 + 1) \in {"x", "X"}
                /\ HexVal(CharAt(t, i1 + 2)) >= 0
        base == IF hex THEN 16 ELSE IF CharAt(t, i1) = "0" THEN 8 ELSE 10
        i2   == IF hex THEN i1 + 2 ELSE i1
        r    == ParseDigits(t, i2, base, 0)
    IN  IF r.end = i2
        THEN [val |-> 0, end |-> from]
        ELSE [val |-> IF neg THEN 0 - r.val ELSE r.val, end |-> r.end]

\* atoi(t): leading blanks, a sign, decimal digits; 0 when there is no digit
atoi(t) ==
    LET i0  == SkipSpace(t, 1)
        neg == CharAt(t, i0) = "-"
        i1  == IF CharAt(t, i0) \in {"-", "+"} THEN i0 + 1 ELSE i0
        r   == ParseDigits(t, i1, 10, 0)
    IN  IF neg THEN 0 - r.val ELSE r.val

\* strstr(t, pat) != NULL
strstr(t, pat) ==
    \E i \in 1..Len(t) :
        i + Len(pat) - 1 <= Len(t) /\ SubSeq(t, i, i + Len(pat) - 1) = pat

T_seek  == <<"s", "e", "e", "k", " ">>
T_pause == <<"p", "a", "u", "s", "e">>
T_quit  == <<"q", "u", "i", "t">>

\* the branch of vidcap_file_process_messages a text takes
MsgBranch(t) ==
    IF strstr(t, T_seek) THEN "seek"
    ELSE IF t = T_pause THEN "pause"
    ELSE IF t = T_quit THEN "quit"
    ELSE "unknown"

(*************************** arithmetic ***********************************)
\* conversion of the rational p / q (q > 0) to an integer, toward zero
Trunc(p, q) == IF p >= 0 THEN p \div q ELSE 0 - ((0 - p) \div q)

MIN(a, b) == IF a < b THEN a ELSE b

\* the ts argument of avformat_seek_file for a seek message:
\* st->start_time + s->last_vid_pts + sec * tb.den / tb.num
SeekTargetNoFps(t, sp, last) ==
    LET r == strtol(t, Len(T_seek) + 1)
    IN  Trunc((sp.start_time + last) * sp.tb_num + r.val * sp.tb_den,
              sp.tb_num)
SeekTarget(t, sp, last) ==
    LET r    == strtol(t, Len(T_seek) + 1)
        secs == CharAt(t, r.end) = "s"
        secN == IF secs THEN r.val ELSE r.val * sp.fps_den
        secD == IF secs THEN 1 ELSE sp.fps_num
    IN  Trunc((sp.start_time + last) * secD * sp.tb_num + secN * sp.tb_den,
              secD * sp.tb_num)

\* (int) (AUDIO_RATIO * sample_rate / video_fps) * bps * ch_count
AudioTargetCeil(sp) ==
    LET p == AudioRatioNum * sp.sample_rate * sp.fps_den
        q == AudioRatioDen * sp.fps_num
    IN  ((p + q - 1) \div q) * sp.bps * sp.ch_count
AudioTarget(sp) ==
    Trunc(AudioRatioNum * sp.sample_rate * sp.fps_den,
          AudioRatioDen * sp.fps_num) * sp.bps * sp.ch_count


(***************************** state **************************************)
VARIABLES
    opt,                \* options set by vidcap_file_parse_fmt
    strm,               \* parameters of the opened streams
    use_audio,
    texts,              \* the texts the message deliverer sends in this run
    msg_budget,         \* how many messages it sends in this run
    failed, new_msg, paused, should_exit,
    last_vid_pts,
    video_frame_queue,
    audio_data_len,     \* s->audio_frame.data_len
    lock,               \* holder of s->lock
    pc,                 \* position of each thread
    out,                \* the worker's local frame `out`
    next_id,            \* identity given to the next allocated frame
    src_pos,            \* read position of fmt_ctx: index of the next packet
    msg_queue,          \* messages queued at the module, not yet dequeued
    replies,            \* responses given by free_message, in order
    exit_requested,     \* exit_uv has been called
    seek_call,          \* the last avformat_seek_file issued for a message:
                        \* the message text, the ts argument, the outcome
    grab_ret,           \* value returned by the last completed grab
    grab_audio,         \* *audio of the last completed grab
    last_out,           \* the last frame a grab returned
    period_passed,      \* 1/fps has elapsed since s->last_frame
    released,           \* vidcap_file_common_cleanup has run
    hist,               \* history of the pause flag (see PauseHist0)
    disp,               \* the registry and dispatch of video_capture.c (see Disp0)
    audio_frame_lock,   \* the thread that holds s->audio_frame_lock, or NoThread
    clk,                \* the clock and the pacing loop of grab (see Clk0)
    ini,                \* a call of vidcap_file_init under way (see Ini0)
    audio_bytes         \* which bytes s->audio_frame.data holds (see
                        \* AudioBytes0)

vars == <<opt, strm, use_audio, texts, msg_budget, failed, new_msg, paused, should_exit,
          last_vid_pts, video_frame_queue, audio_data_len, lock,
          pc, out, next_id, src_pos, msg_queue, replies,
          exit_requested, seek_call, grab_ret, grab_audio, last_out,
          period_passed, released, hist, disp, audio_frame_lock, clk,
          ini, audio_bytes>>

\* variables of the file backend
fvars == <<opt, strm, use_audio, texts, msg_budget, failed, new_msg, paused,
           should_exit, last_vid_pts, video_frame_queue, audio_data_len,
           lock, pc, out, next_id, src_pos, msg_queue, replies,
           exit_requested, seek_call, grab_ret, grab_audio, last_out,
           period_passed, released, hist, audio_frame_lock, audio_bytes>>

\* threads
W == "worker"
C == "consumer"
M == "messenger"
X == "exit_cb"
NoThread == "none"

NoFrame == [pts |-> 0 - 1, id |-> 0 - 1]
NoAudio == [data_len |-> 0 - 1]
\* frame identities are reused after IdMod allocations; at most
\* max_queue_len + 3 frames are alive at a time
IdMod == MaxQueueOpt + 4

(***************************** source *************************************)
\* the stream packet i of the source file belongs to
PacketKind(i) == strm.packets[i]
\* number of packets in the file
NbPackets == Len(strm.packets)
\* pkt->pts (or pkt->dts) of packet i
PktPts(i) == strm.start_time + (i - 1) * strm.pts_step
\* the packet avformat_seek_file positions the source at for timestamp ts
PosOfTs(ts) ==
    LET k == ((ts - strm.start_time) \div strm.pts_step) + 1
    IN  IF k < 1 THEN 1
        ELSE IF k > NbPackets + 1 THEN NbPackets + 1 ELSE k

\* s->audio_frame.max_size
AudioMaxSize == strm.bps * strm.ch_count * strm.sample_rate
\* bytes of one decoded audio unit: plane_count * bps * frame_size
AudioUnitLen == strm.ch_count * strm.bps * strm.frame_size

(***************************** inputs *************************************)
T_seek1 == T_seek \o <<"1">>
T_foo   == <<"f", "o", "o">>
MainTexts == {T_pause, T_seek1, T_quit, T_foo}

\* the opened file: its packets, 2 frames per second, time base 1/4
MainStream(pk) ==
    [packets |-> pk,
     fps_num |-> 2, fps_den |-> 1, tb_num |-> 1, tb_den |-> 4,
     start_time |-> 0, pts_step |-> 2,
     sample_rate |-> 4, bps |-> 1, ch_count |-> 1, frame_size |-> 3]

QueueLens == FILE_DEFAULT_QUEUE_LEN..MaxQueueOpt

Opt(q, l, nd) == [max_queue_len |-> q, loop |-> l, no_decode |-> nd]
Run(o, ua, tx, n, pk) ==
    [opt |-> o, use_audio |-> ua, texts |-> tx, msgs |-> n, packets |-> pk]

\* files: every third packet of the main file belongs to the audio stream
MainFile == [i \in 1..NumPackets |-> IF i % 3 = 2 THEN "audio" ELSE "video"]
VideoFile == [i \in 1..FairPackets |-> "video"]
AudioFile == <<"audio">>
EmptyFile == <<>>
\* more audio than the buffer holds ahead of the first video frame
AudioHeavyFile == <<"audio", "audio", "video">>

\* the runs explored: the options, whether audio is captured, what the
\* message deliverer sends and the length of the file
\*  - no messages, every decode option, with and without audio
CoreRuns == {Run(Opt(q, FALSE, nd), ua, {}, 0, MainFile) :
                q \in QueueLens, nd \in BOOLEAN, ua \in BOOLEAN}
\*  - looped playback
LoopRuns == {Run(Opt(q, TRUE, TRUE), FALSE, {}, 0, MainFile) :
                q \in QueueLens}
\*  - one message of any kind
OneMsgRuns == {Run(Opt(FILE_DEFAULT_QUEUE_LEN, FALSE, TRUE), FALSE,
                   MainTexts, 1, MainFile)}
\*  - up to MaxMsgs "pause" messages
PauseRuns == {Run(Opt(FILE_DEFAULT_QUEUE_LEN, FALSE, TRUE), FALSE,
                  {T_pause}, MaxMsgs, MainFile)}
\*  - short files: video only; audio only; no packet at all, with one
\*    message of any kind; one packet, played in a loop
ShortRuns ==
    {Run(Opt(FILE_DEFAULT_QUEUE_LEN, FALSE, TRUE), FALSE, {}, 0, VideoFile),
     Run(Opt(FILE_DEFAULT_QUEUE_LEN, FALSE, FALSE), TRUE, {}, 0, AudioFile),
     Run(Opt(FILE_DEFAULT_QUEUE_LEN, FALSE, TRUE), FALSE, MainTexts, 1,
         EmptyFile),
     Run(Opt(FILE_DEFAULT_QUEUE_LEN, TRUE, TRUE), FALSE, {}, 0, <<"video">>)}
\*  - audio captured from a file that overflows the audio buffer
AudioRuns == {Run(Opt(FILE_DEFAULT_QUEUE_LEN, FALSE, TRUE), TRUE, {}, 0,
                  AudioHeavyFile)}
\*  - up to MaxMsgs messages, "seek 1" or "pause", on a file of one packet
TwoMsgRuns == {Run(Opt(FILE_DEFAULT_QUEUE_LEN, FALSE, TRUE), FALSE,
                   {T_seek1, T_pause}, MaxMsgs, <<"video">>)}
\*  - the queue option given as a text: none, one, or less than none
QueueTexts == {<<"0">>, <<"1">>, <<"-", "1">>}
QueueOptRuns == {Run(Opt(atoi(t), FALSE, TRUE), FALSE, {}, 0, VideoFile) :
                    t \in QueueTexts}
\*  - a "pause" message while the queue, with queue=0, fills up, and up to
\*    MaxMsgs of them on a file without packets
BusyMsgRuns == {Run(Opt(atoi(<<"0">>), FALSE, TRUE), FALSE,
                    {T_pause}, 1, <<"video", "video">>),
                Run(Opt(FILE_DEFAULT_QUEUE_LEN, FALSE, TRUE), FALSE,
                    {T_pause}, MaxMsgs, EmptyFile)}
Runs == CoreRuns \cup LoopRuns \cup OneMsgRuns \cup PauseRuns \cup ShortRuns
            \cup AudioRuns \cup TwoMsgRuns

(*********************** registry and dispatch ****************************)
\* video_capture.c, called by one thread; an assertion failure ends the
\* process
VIDCAP_MAGIC == "0x76ae98f0"
NULL == "NULL"
\* d->state == &vidcap_init_noerr
INIT_NOERR == "vidcap_init_noerr"
\* state produced by a backend's init
INIT_STATE == "state"

TableIdx == 0..(TableSize - 1)
\* dt->id of the backend at entry i of the table; the static table holds 0
BackendId(i) == i + 1
\* the entry of the table that stands for the file backend
FileIdx == 0
NoBackend == 0 - 1
\* the struct vidcap_type that func_probe of entry i returns
Descriptor(i) == ToString(BackendId(i))

\* the four entry points of a backend
EntryPoints == {"probe", "init", "done", "grab"}
\* the entries of the table that name a library when the backends are built
\* as modules
ModuleEntries == {1}

NoCall == [fn |-> "none", arg |-> 0, fmt |-> "", outcome |-> "none",
           ret |-> 0, called |-> NoBackend, init |-> "none",
           closed |-> FALSE, tag_ok |-> TRUE, entry |-> NULL,
           probes |-> {},   \* the entries whose func_probe the call ran
           found |-> {}]    \* and those for which it returned a descriptor

\* state of video_capture.c when the process starts
Disp0 ==
    [ids |-> [i \in TableIdx |-> 0],
     available_devices |-> [i \in TableIdx |-> NULL],
     available_device_count |-> 0,
     \* library_name and handle of each entry, and which of its four
     \* function pointers are set
     library_name |-> [i \in TableIdx |-> NULL],
     lib_handle |-> [i \in TableIdx |-> NULL],
     resolved |-> [i \in TableIdx |-> EntryPoints],
     \* the id in the descriptor that func_probe of each entry returns
     dt_id |-> [i \in TableIdx |-> BackendId(i)],
     probed |-> FALSE,        \* vidcap_init_devices ran since the last free
     handle |-> [st |-> "none", magic |-> "none", index |-> NoBackend],
     slot |-> "unset",        \* the caller's struct vidcap *
     worker |-> FALSE,        \* vidcap_file_init created the worker thread
     aborted |-> FALSE,
     last |-> NoCall]         \* the last call and what it did

\* the same with the backends of ModuleEntries built as modules: the entry
\* names its library and its function pointers are null until resolved
LibDisp0 ==
    [Disp0 EXCEPT
        !.library_name = [i \in TableIdx |->
                             IF i \in ModuleEntries THEN "module" ELSE NULL],
        !.resolved = [i \in TableIdx |->
                         IF i \in ModuleEntries THEN {} ELSE EntryPoints]]

\* a build in which two backends carry the same identity: the last entry of
\* the table reports the id of the entry before it
ClashDisp0 ==
    [Disp0 EXCEPT
        !.dt_id = [i \in TableIdx |->
                      IF i = TableSize - 1 THEN BackendId(i - 1)
                      ELSE BackendId(i)]]

(************************** vidcap_file_init ******************************)
\* what vidcap_file_init acquires and vidcap_file_common_cleanup releases
BaseResources ==
    {"s", "video_frame_queue", "audio_frame_lock", "lock", "frame_consumed",
     "new_frame_ready", "paused_cv", "mod"}
Resources ==
    BaseResources \cup {"src_filename", "fmt_ctx", "aud_ctx",
                        "audio_frame.data", "vid_ctx", "sws_ctx"}

\* a call of vidcap_file_init before its line 506: fmt is the list of the
\* items that follow the file name in the configuration string, audio tells
\* whether the flags ask for audio. held is what the call owns, released
\* counts the releases of each resource, acquired is what it ever owned.
Ini0(fmt, audio) ==
    [at |-> "alloc", fmt |-> fmt, audio |-> audio,
     loop |-> FALSE, no_decode |-> FALSE, opportunistic_audio |-> FALSE,
     held |-> {}, acquired |-> {}, released |-> [r \in Resources |-> 0],
     use_audio |-> FALSE, ret |-> "none", state_written |-> FALSE,
     callback |-> FALSE, worker |-> FALSE]

(************************** clock and pacing ******************************)
\* lines 694-700 with the clock made explicit, in ticks: now is what
\* gettimeofday returns, at the position of the consumer in grab, t and
\* last_frame the variables of the code. s->last_frame is zeroed by calloc,
\* more than a frame period before any clock reading. ret_prev and ret_last
\* are the clock at the last two returns of grab, stamp_prev and stamp_last
\* the values s->last_frame had at them.
Clk0 ==
    [now |-> 0, at |-> "idle", t |-> 0, last_frame |-> 0 - PacePeriod,
     returns |-> 0,
     ret_prev |-> 0, ret_last |-> 0, stamp_prev |-> 0, stamp_last |-> 0]

(************************ bytes of the audio buffer ************************)
\* The bytes the worker appends are numbered 0, 1, 2, ... in the order they
\* are accepted. A stretch of memory is described by the runs of consecutive
\* numbers it holds, <<[from, len], ...>>.
RECURSIVE SegLen(_)
SegLen(segs) ==
    IF segs = <<>> THEN 0 ELSE Head(segs).len + SegLen(Tail(segs))

\* memcpy of len bytes numbered from.. behind what segs holds
SegAppend(segs, from, len) ==
    IF len <= 0 THEN segs
    ELSE IF segs # <<>> /\ segs[Len(segs)].from + segs[Len(segs)].len = from
    THEN [segs EXCEPT ![Len(segs)].len = @ + len]
    ELSE Append(segs, [from |-> from, len |-> len])

\* the first n bytes of segs
RECURSIVE SegTake(_, _)
SegTake(segs, n) ==
    IF n <= 0 \/ segs = <<>> THEN <<>>
    ELSE IF Head(segs).len <= n
    THEN <<Head(segs)>> \o SegTake(Tail(segs), n - Head(segs).len)
    ELSE <<[from |-> Head(segs).from, len |-> n]>>

\* segs from its n-th byte on (data + n)
RECURSIVE SegDrop(_, _)
SegDrop(segs, n) ==
    IF n <= 0 \/ segs = <<>> THEN segs
    ELSE IF Head(segs).len <= n
    THEN SegDrop(Tail(segs), n - Head(segs).len)
    ELSE <<[from |-> Head(segs).from + n, len |-> Head(segs).len - n]>>
             \o Tail(segs)

\* get_audio without the memmove of line 666: the first rest bytes of the
\* buffer stay what they were
ShiftNone(segs, n, rest) == SegTake(segs, rest)

\* line 666: memmove(data, data + n, rest), seen through the new data_len
ShiftDown(segs, n, rest) == SegTake(SegDrop(segs, n), rest)

\* the audio buffer after calloc: data is what s->audio_frame.data holds in
\* its first data_len bytes, written the number of bytes accepted so far,
\* slice what the last get_audio copied into the frame it returned, taken
\* the number of bytes all get_audio calls returned
AudioBytes0 == [data |-> <<>>, written |-> 0, slice |-> <<>>, taken |-> 0]

\* history of the pause flag: its value before the first "pause" message
\* and the number of "pause" messages processed since (all_*), and the same
\* since the worker last reached the end of the file (seg_*)
PauseHist0 == [all_base |-> FALSE, all_k |-> 0, seg_base |-> FALSE, seg_k |-> 0]

\* calloc'ed state after a successful vidcap_file_init
InitState ==
    /\ failed = FALSE /\ new_msg = FALSE /\ paused = FALSE
    /\ should_exit = FALSE
    /\ last_vid_pts = strm.start_time
    /\ video_frame_queue = <<>>
    /\ audio_data_len = 0
    /\ lock = NoThread
    /\ out = NoFrame /\ next_id = 0
    /\ src_pos = 1
    /\ msg_queue = <<>> /\ replies = <<>>
    /\ exit_requested = FALSE
    /\ seek_call = [set |-> FALSE, for |-> <<>>, ts |-> 0, ok |-> FALSE]
    /\ grab_ret = NoFrame /\ grab_audio = NoAudio
    /\ last_out = [pts |-> 0 - 1, id |-> IdMod - 1]
    /\ period_passed = TRUE
    /\ released = FALSE
    /\ hist = PauseHist0
    /\ clk = Clk0
    /\ audio_frame_lock = NoThread
    /\ audio_bytes = AudioBytes0

\* the handle as vidcap_file_init returns it for run r, no call of
\* vidcap_file_init being under way
InitRunOn(r, d) ==
    /\ opt = r.opt
    /\ strm = MainStream(r.packets)
    /\ use_audio = r.use_audio
    /\ texts = r.texts
    /\ msg_budget = r.msgs
    /\ pc = [t \in {W, C, M, X} |->
                CASE t = W -> "w_loop" [] t = C -> "c_idle"
                  [] t = M -> "m_idle" [] t = X -> "x_idle"]
    /\ InitState
    /\ ini = Ini0(<<>>, FALSE)
    /\ disp = d

InitRun(r) == InitRunOn(r, Disp0)

Init == \E r \in Runs : InitRun(r)

(************************** primitives ************************************)
Goto(t, l) == pc' = [pc EXCEPT ![t] = l]

\* the thread parked on each condition variable, and where it resumes
ParkedAt(cv) ==
    CASE cv = "new_frame_ready" -> [t |-> C, at |-> "c_wait", to |-> "c_lock"]
      [] cv = "frame_consumed"  -> [t |-> W, at |-> "w_qwait", to |-> "w_qlock"]
      [] cv = "paused_cv"       -> [t |-> W, at |-> "w_pwait", to |-> "w_pwake"]

\* pthread_cond_signal(cv) by thread t, which continues at l: the thread
\* parked on cv, if any, is made runnable and has to take the mutex again
Signal(t, cv, l) ==
    LET w == ParkedAt(cv)
    IN  pc' = [pc EXCEPT ![t] = l,
                         ![w.t] = IF pc[w.t] = w.at THEN w.to ELSE @]

\* simple_linked_list_append / _pop / _size (utils/list)
simple_linked_list_append(q, f) == Append(q, f)
simple_linked_list_size(q) == Len(q)
simple_linked_list_first(q) == Head(q)
simple_linked_list_rest(q) == Tail(q)

\* line 242: s->paused = !s->paused
TogglePausedSet(p) == TRUE
TogglePaused(p) == ~p

\* a producer that lets the queue grow one frame longer
QueueFullLoose(q, max) == simple_linked_list_size(q) > max + 1

\* line 385: the producer waits while the queue is longer than max_queue_len
QueueFull(q, max) == simple_linked_list_size(q) > max

\* line 681: the consumer waits while this holds
GrabMustWait == /\ simple_linked_list_size(video_frame_queue) = 0
                /\ ~failed /\ ~should_exit
\* line 684: grab gives up
GrabGivesUp == failed \/ should_exit

Reply(code) == replies' = Append(replies, code)

XOR(a, b) == a # b

(***************************** worker *************************************)
\* a paused wait that only should_exit ends
AfterHeadDeaf(p, se, nm) ==
    IF ~p THEN "w_read"
    ELSE IF ~se THEN "w_pwait"
    ELSE "w_loop"

\* where the worker goes when it leaves the critical section at the head of
\* its loop (lines 270-281): to the paused wait, past it, or on to read
AfterHead(p, se, nm) ==
    IF ~p THEN "w_read"
    ELSE IF ~se /\ ~nm THEN "w_pwait"
    ELSE "w_loop"

\* line 264: while (!s->should_exit), read without the lock
WorkerLoopTest ==
    /\ pc[W] = "w_loop"
    /\ Goto(W, IF should_exit THEN "w_done" ELSE "w_lock")
    /\ UNCHANGED <<audio_bytes, ini, clk, audio_frame_lock, disp, opt, strm, use_audio, texts, msg_budget, failed, new_msg, paused,
          should_exit, last_vid_pts, video_frame_queue, audio_data_len, lock,
          out, next_id, src_pos, msg_queue, replies, exit_requested,
          seek_call, grab_ret, grab_audio, last_out, period_passed, released,
          hist>>

\* lines 265-281 when s->new_msg is clear: lock, test s->paused, then wait
\* on paused_cv (which releases the lock) or unlock
WorkerHead ==
    /\ pc[W] = "w_lock"
    /\ lock = NoThread
    /\ ~new_msg
    /\ Goto(W, AfterHead(paused, should_exit, new_msg))
    /\ UNCHANGED <<audio_bytes, ini, clk, audio_frame_lock, disp, opt, strm, use_audio, texts, msg_budget, failed, new_msg, paused,
          should_exit, last_vid_pts, video_frame_queue, audio_data_len, lock,
          out, next_id, src_pos, msg_queue, replies, exit_requested,
          seek_call, grab_ret, grab_audio, last_out, period_passed, released,
          hist>>

\* lines 265-267 when s->new_msg is set: lock and enter
\* vidcap_file_process_messages
WorkerHeadMsgs ==
    /\ pc[W] = "w_lock"
    /\ lock = NoThread
    /\ new_msg
    /\ lock' = W
    /\ Goto(W, "w_msgs")
    /\ UNCHANGED <<audio_bytes, ini, clk, audio_frame_lock, disp, opt, strm, use_audio, texts, msg_budget, failed, new_msg, paused,
          should_exit, last_vid_pts, video_frame_queue, audio_data_len, out,
          next_id, src_pos, msg_queue, replies, exit_requested, seek_call,
          grab_ret, grab_audio, last_out, period_passed, released, hist>>

\* lines 227-240, 252: a text containing "seek "
WorkerMsgSeek ==
    /\ pc[W] = "w_msgs" /\ msg_queue # <<>>
    /\ MsgBranch(Head(msg_queue)) = "seek"
    /\ \E ok \in BOOLEAN :
         LET ts == SeekTarget(Head(msg_queue), strm, last_vid_pts)
         IN  /\ seek_call' = [set |-> TRUE, for |-> Head(msg_queue),
                               ts |-> ts, ok |-> ok]
             /\ src_pos' = IF ok THEN PosOfTs(ts) ELSE src_pos
    /\ Reply(RESPONSE_OK)
    /\ msg_queue' = Tail(msg_queue)
    /\ UNCHANGED <<audio_bytes, ini, clk, audio_frame_lock, disp, opt, strm, use_audio, texts, msg_budget, failed, new_msg, paused,
          should_exit, last_vid_pts, video_frame_queue, audio_data_len, lock,
          pc, out, next_id, exit_requested, grab_ret, grab_audio, last_out,
          period_passed, released, hist>>

\* lines 241-243, 252: "pause"
WorkerMsgPause ==
    /\ pc[W] = "w_msgs" /\ msg_queue # <<>>
    /\ MsgBranch(Head(msg_queue)) = "pause"
    /\ paused' = TogglePaused(paused)
    /\ hist' = [hist EXCEPT
                  !.all_base = IF hist.all_k = 0 THEN paused ELSE @,
                  !.all_k = @ + 1,
                  !.seg_k = @ + 1]
    /\ Reply(RESPONSE_OK)
    /\ msg_queue' = Tail(msg_queue)
    /\ UNCHANGED <<audio_bytes, ini, clk, audio_frame_lock, disp, opt, strm, use_audio, texts, msg_budget, failed, new_msg, should_exit,
          last_vid_pts, video_frame_queue, audio_data_len, lock, pc, out,
          next_id, src_pos, exit_requested, seek_call, grab_ret, grab_audio,
          last_out, period_passed, released>>

\* lines 244-245, 252: "quit"
WorkerMsgQuit ==
    /\ pc[W] = "w_msgs" /\ msg_queue # <<>>
    /\ MsgBranch(Head(msg_queue)) = "quit"
    /\ exit_requested' = TRUE
    /\ Reply(RESPONSE_OK)
    /\ msg_queue' = Tail(msg_queue)
    /\ UNCHANGED <<audio_bytes, ini, clk, audio_frame_lock, disp, opt, strm, use_audio, texts, msg_budget, failed, new_msg, paused,
          should_exit, last_vid_pts, video_frame_queue, audio_data_len, lock,
          pc, out, next_id, src_pos, seek_call, grab_ret, grab_audio,
          last_out, period_passed, released, hist>>

\* lines 246-250: any other text
WorkerMsgUnknown ==
    /\ pc[W] = "w_msgs" /\ msg_queue # <<>>
    /\ MsgBranch(Head(msg_queue)) = "unknown"
    /\ Reply(RESPONSE_BAD_REQUEST)
    /\ msg_queue' = Tail(msg_queue)
    /\ UNCHANGED <<audio_bytes, ini, clk, audio_frame_lock, disp, opt, strm, use_audio, texts, msg_budget, failed, new_msg, paused,
          should_exit, last_vid_pts, video_frame_queue, audio_data_len, lock,
          pc, out, next_id, src_pos, exit_requested, seek_call, grab_ret,
          grab_audio, last_out, period_passed, released, hist>>

\* lines 225, 268-281 with the loop of line 225 left after at most one
\* message
WorkerMsgsDoneEarly ==
    /\ pc[W] = "w_msgs"
    /\ new_msg' = FALSE
    /\ lock' = NoThread
    /\ Goto(W, AfterHead(paused, should_exit, FALSE))
    /\ UNCHANGED <<audio_bytes, ini, clk, audio_frame_lock, disp, opt, strm, use_audio, texts, msg_budget, failed, paused, should_exit,
          last_vid_pts, video_frame_queue, audio_data_len, out, next_id,
          src_pos, msg_queue, replies, exit_requested, seek_call, grab_ret,
          grab_audio, last_out, period_passed, released, hist>>

\* lines 225, 268-281: check_message returned NULL; s->new_msg = false, test
\* s->paused, then wait on paused_cv or unlock
WorkerMsgsDone ==
    /\ pc[W] = "w_msgs" /\ msg_queue = <<>>
    /\ new_msg' = FALSE
    /\ lock' = NoThread
    /\ Goto(W, AfterHead(paused, should_exit, FALSE))
    /\ UNCHANGED <<audio_bytes, ini, clk, audio_frame_lock, disp, opt, strm, use_audio, texts, msg_budget, failed, paused, should_exit,
          last_vid_pts, video_frame_queue, audio_data_len, out, next_id,
          src_pos, msg_queue, replies, exit_requested, seek_call, grab_ret,
          grab_audio, last_out, period_passed, released, hist>>

\* lines 271-279: pthread_cond_wait returns with the lock and the loop tests
\* again: wait once more, or unlock and break / continue. (The break tests
\* should_exit a second time, without the lock, right before the test of
\* line 264; the flag is only ever set, so the two tests are one here.)
WorkerPausedWake ==
    /\ pc[W] = "w_pwake"
    /\ lock = NoThread
    /\ Goto(W, AfterHead(TRUE, should_exit, new_msg))
    /\ UNCHANGED <<audio_bytes, ini, clk, audio_frame_lock, disp, opt, strm, use_audio, texts, msg_budget, failed, new_msg, paused,
          should_exit, last_vid_pts, video_frame_queue, audio_data_len, lock,
          out, next_id, src_pos, msg_queue, replies, exit_requested,
          seek_call, grab_ret, grab_audio, last_out, period_passed, released,
          hist>>

\* lines 283-292 with s->loop ignored: the end of the file always pauses
WorkerReadEofNoLoop ==
    /\ pc[W] = "w_read"
    /\ src_pos > NbPackets
    /\ paused' = TRUE
    /\ hist' = [hist EXCEPT !.seg_base = TRUE, !.seg_k = 0]
    /\ Goto(W, "w_loop")
    /\ UNCHANGED src_pos
    /\ UNCHANGED <<audio_bytes, ini, clk, audio_frame_lock, disp, opt, strm, use_audio, texts, msg_budget, failed, new_msg, should_exit,
          last_vid_pts, video_frame_queue, audio_data_len, lock, out,
          next_id, msg_queue, replies, exit_requested, seek_call, grab_ret,
          grab_audio, last_out, period_passed, released>>

\* lines 283-292 without line 289: the worker reads again instead of pausing
WorkerReadEofNoPause ==
    /\ pc[W] = "w_read"
    /\ src_pos > NbPackets
    /\ IF opt.loop
       THEN \E ok \in BOOLEAN :
              /\ src_pos' = IF ok THEN PosOfTs(strm.start_time) ELSE src_pos
              /\ Goto(W, IF ok THEN "w_loop" ELSE "w_fail")
       ELSE /\ Goto(W, "w_loop")
            /\ UNCHANGED src_pos
    /\ UNCHANGED <<paused, hist>>
    /\ UNCHANGED <<audio_bytes, ini, clk, audio_frame_lock, disp, opt, strm, use_audio, texts, msg_budget, failed, new_msg, should_exit,
          last_vid_pts, video_frame_queue, audio_data_len, lock, out,
          next_id, msg_queue, replies, exit_requested, seek_call, grab_ret,
          grab_audio, last_out, period_passed, released>>

\* lines 283-292: av_read_frame returned AVERROR_EOF
WorkerReadEof ==
    /\ pc[W] = "w_read"
    /\ src_pos > NbPackets
    /\ IF opt.loop
       THEN \E ok \in BOOLEAN :
              /\ src_pos' = IF ok THEN PosOfTs(strm.start_time) ELSE src_pos
              /\ Goto(W, IF ok THEN "w_loop" ELSE "w_fail")
              /\ UNCHANGED <<paused, hist>>
       ELSE /\ paused' = TRUE
            /\ hist' = [hist EXCEPT !.seg_base = TRUE, !.seg_k = 0]
            /\ Goto(W, "w_loop")
            /\ UNCHANGED src_pos
    /\ UNCHANGED <<audio_bytes, ini, clk, audio_frame_lock, disp, opt, strm, use_audio, texts, msg_budget, failed, new_msg, should_exit,
          last_vid_pts, video_frame_queue, audio_data_len, lock, out,
          next_id, msg_queue, replies, exit_requested, seek_call, grab_ret,
          grab_audio, last_out, period_passed, released>>

\* line 293: av_read_frame failed with another error
WorkerReadError ==
    /\ pc[W] = "w_read"
    /\ Goto(W, "w_fail")
    /\ UNCHANGED <<audio_bytes, ini, clk, audio_frame_lock, disp, opt, strm, use_audio, texts, msg_budget, failed, new_msg, paused,
          should_exit, last_vid_pts, video_frame_queue, audio_data_len, lock,
          out, next_id, src_pos, msg_queue, replies, exit_requested,
          seek_call, grab_ret, grab_audio, last_out, period_passed, released,
          hist>>

\* lines 311-330: a packet of the audio stream
WorkerReadAudio ==
    /\ pc[W] = "w_read"
    /\ src_pos <= NbPackets /\ PacketKind(src_pos) = "audio"
    /\ src_pos' = src_pos + 1
    /\ IF use_audio
       THEN \E decoded \in BOOLEAN :
              Goto(W, IF decoded THEN "w_audio" ELSE "w_loop")
       ELSE Goto(W, "w_loop")
    /\ UNCHANGED <<audio_bytes, ini, clk, audio_frame_lock, disp, opt, strm, use_audio, texts, msg_budget, failed, new_msg, paused,
          should_exit, last_vid_pts, video_frame_queue, audio_data_len, lock,
          out, next_id, msg_queue, replies, exit_requested, seek_call,
          grab_ret, grab_audio, last_out, period_passed, released, hist>>

\* lines 331-383 with a decode failure treated like a read error
WorkerReadVideoFatal ==
    /\ pc[W] = "w_read"
    /\ src_pos <= NbPackets /\ PacketKind(src_pos) = "video"
    /\ src_pos' = src_pos + 1
    /\ last_vid_pts' = PktPts(src_pos)
    /\ \E decoded \in (IF opt.no_decode THEN {TRUE} ELSE BOOLEAN) :
         IF decoded
         THEN /\ out' = [pts |-> PktPts(src_pos), id |-> next_id]
              /\ next_id' = (next_id + 1) % IdMod
              /\ Goto(W, "w_qlock")
         ELSE /\ Goto(W, "w_fail")
              /\ UNCHANGED <<out, next_id>>
    /\ UNCHANGED <<audio_bytes, ini, clk, audio_frame_lock, disp, opt, strm, use_audio, texts, msg_budget, failed, new_msg, paused,
          should_exit, video_frame_queue, audio_data_len, lock, msg_queue,
          replies, exit_requested, seek_call, grab_ret, grab_audio, last_out,
          period_passed, released, hist>>

\* lines 331-383: a packet of the video stream
WorkerReadVideo ==
    /\ pc[W] = "w_read"
    /\ src_pos <= NbPackets /\ PacketKind(src_pos) = "video"
    /\ src_pos' = src_pos + 1
    /\ last_vid_pts' = PktPts(src_pos)
    /\ \E decoded \in (IF opt.no_decode THEN {TRUE} ELSE BOOLEAN) :
         IF decoded
         THEN /\ out' = [pts |-> PktPts(src_pos), id |-> next_id]
              /\ next_id' = (next_id + 1) % IdMod
              /\ Goto(W, "w_qlock")
         ELSE /\ Goto(W, "w_loop")
              /\ UNCHANGED <<out, next_id>>
    /\ UNCHANGED <<audio_bytes, ini, clk, audio_frame_lock, disp, opt, strm, use_audio, texts, msg_budget, failed, new_msg, paused,
          should_exit, video_frame_queue, audio_data_len, lock, msg_queue,
          replies, exit_requested, seek_call, grab_ret, grab_audio, last_out,
          period_passed, released, hist>>

\* line 196: pthread_mutex_lock(&s->audio_frame_lock)
WorkerAudioLock ==
    /\ pc[W] = "w_audio"
    /\ audio_frame_lock = NoThread
    /\ audio_frame_lock' = W
    /\ UNCHANGED <<audio_bytes, ini, clk, disp, opt, strm, use_audio, texts, msg_budget, failed,
          new_msg, paused, should_exit, last_vid_pts, video_frame_queue,
          audio_data_len, lock, pc, out, next_id, src_pos, msg_queue,
          replies, exit_requested, seek_call, grab_ret, grab_audio, last_out,
          period_passed, released, hist>>

\* lines 197-206 with the overflow test of line 198 left out
WriteAudioPlanarNoCheck(len) == len + AudioUnitLen

\* lines 197-206, planar samples: the buffered length after the unit, which
\* is left out when it does not fit
WriteAudioPlanar(len) ==
    IF len + AudioUnitLen > AudioMaxSize THEN len ELSE len + AudioUnitLen

\* append_audio_frame (audio/utils), lines 207-217, interleaved samples: a
\* unit that does not fit is dropped
append_audio_frame(len, data_size) ==
    IF len + data_size > AudioMaxSize THEN len ELSE len + data_size

\* lines 196-219, vidcap_file_write_audio under s->audio_frame_lock: append
\* the unit unless it overflows the buffer
WorkerWriteAudio ==
    /\ pc[W] = "w_audio"
    /\ audio_frame_lock = W
    /\ audio_frame_lock' = NoThread
    /\ \E planar \in BOOLEAN :
         audio_data_len' = IF planar
                           THEN WriteAudioPlanar(audio_data_len)
                           ELSE append_audio_frame(audio_data_len,
                                                   AudioUnitLen)
    /\ LET added == audio_data_len' - audio_data_len
       IN audio_bytes' = [audio_bytes EXCEPT
              !.data = SegAppend(SegTake(@, audio_data_len),
                                 audio_bytes.written, added),
              !.written = @ + added]
    /\ Goto(W, "w_loop")
    /\ UNCHANGED <<ini, clk, disp, opt, strm, use_audio, texts, msg_budget, failed, new_msg, paused,
          should_exit, last_vid_pts, video_frame_queue, lock, out, next_id,
          src_pos, msg_queue, replies, exit_requested, seek_call, grab_ret,
          grab_audio, last_out, period_passed, released, hist>>

\* lines 384-387: lock (also on return from the wait), the queue is full:
\* pthread_cond_wait(&s->frame_consumed, &s->lock)
WorkerQueueWait ==
    /\ pc[W] = "w_qlock"
    /\ lock = NoThread
    /\ ~should_exit
    /\ QueueFull(video_frame_queue, opt.max_queue_len)
    /\ Goto(W, "w_qwait")
    /\ UNCHANGED <<audio_bytes, ini, clk, audio_frame_lock, disp, opt, strm, use_audio, texts, msg_budget, failed, new_msg, paused,
          should_exit, last_vid_pts, video_frame_queue, audio_data_len, lock,
          out, next_id, src_pos, msg_queue, replies, exit_requested,
          seek_call, grab_ret, grab_audio, last_out, period_passed, released,
          hist>>

\* lines 388-393 without VIDEO_FRAME_DISPOSE(out)
WorkerQueueExitKeep ==
    /\ pc[W] = "w_qlock"
    /\ lock = NoThread
    /\ should_exit
    /\ Goto(W, "w_done")
    /\ UNCHANGED <<audio_bytes, ini, clk, audio_frame_lock, disp, opt, strm, use_audio, texts, msg_budget, failed, new_msg, paused,
          should_exit, last_vid_pts, video_frame_queue, audio_data_len, lock,
          out, next_id, src_pos, msg_queue, replies, exit_requested, seek_call,
          grab_ret, grab_audio, last_out, period_passed, released, hist>>

\* lines 384-394: lock, should_exit seen: the frame is disposed, unlock,
\* return
WorkerQueueExit ==
    /\ pc[W] = "w_qlock"
    /\ lock = NoThread
    /\ should_exit
    /\ out' = NoFrame
    /\ Goto(W, "w_done")
    /\ UNCHANGED <<audio_bytes, ini, clk, audio_frame_lock, disp, opt, strm, use_audio, texts, msg_budget, failed, new_msg, paused,
          should_exit, last_vid_pts, video_frame_queue, audio_data_len, lock,
          next_id, src_pos, msg_queue, replies, exit_requested, seek_call,
          grab_ret, grab_audio, last_out, period_passed, released, hist>>

\* lines 384-396 without the test of line 388: the frame is appended
\* whether or not should_exit is set
WorkerAppendAnyway ==
    /\ pc[W] = "w_qlock"
    /\ lock = NoThread
    /\ should_exit \/ ~QueueFull(video_frame_queue, opt.max_queue_len)
    /\ video_frame_queue' = simple_linked_list_append(video_frame_queue, out)
    /\ out' = NoFrame
    /\ Goto(W, "w_signal")
    /\ UNCHANGED <<audio_bytes, ini, clk, audio_frame_lock, disp, opt, strm, use_audio, texts, msg_budget, failed, new_msg, paused,
          should_exit, last_vid_pts, audio_data_len, lock, next_id, src_pos,
          msg_queue, replies, exit_requested, seek_call, grab_ret,
          grab_audio, last_out, period_passed, released, hist>>

\* lines 384-396: lock, append, unlock
WorkerPrepend ==
    /\ pc[W] = "w_qlock"
    /\ lock = NoThread
    /\ ~should_exit
    /\ ~QueueFull(video_frame_queue, opt.max_queue_len)
    /\ video_frame_queue' = <<out>> \o video_frame_queue
    /\ out' = NoFrame
    /\ Goto(W, "w_signal")
    /\ UNCHANGED <<audio_bytes, ini, clk, audio_frame_lock, disp, opt, strm, use_audio, texts, msg_budget, failed, new_msg, paused,
          should_exit, last_vid_pts, audio_data_len, lock, next_id, src_pos,
          msg_queue, replies, exit_requested, seek_call, grab_ret,
          grab_audio, last_out, period_passed, released, hist>>
WorkerAppend ==
    /\ pc[W] = "w_qlock"
    /\ lock = NoThread
    /\ ~should_exit
    /\ ~QueueFull(video_frame_queue, opt.max_queue_len)
    /\ video_frame_queue' = simple_linked_list_append(video_frame_queue, out)
    /\ out' = NoFrame
    /\ Goto(W, "w_signal")
    /\ UNCHANGED <<audio_bytes, ini, clk, audio_frame_lock, disp, opt, strm, use_audio, texts, msg_budget, failed, new_msg, paused,
          should_exit, last_vid_pts, audio_data_len, lock, next_id, src_pos,
          msg_queue, replies, exit_requested, seek_call, grab_ret,
          grab_audio, last_out, period_passed, released, hist>>

\* line 397: pthread_cond_signal(&s->new_frame_ready)
WorkerSkipSignal ==
    /\ pc[W] = "w_signal"
    /\ Goto(W, "w_loop")
    /\ UNCHANGED <<audio_bytes, ini, clk, audio_frame_lock, disp, opt, strm, use_audio, texts, msg_budget, failed, new_msg, paused,
          should_exit, last_vid_pts, video_frame_queue, audio_data_len, lock,
          out, next_id, src_pos, msg_queue, replies, exit_requested,
          seek_call, grab_ret, grab_audio, last_out, period_passed, released,
          hist>>
WorkerSignalNewFrame ==
    /\ pc[W] = "w_signal"
    /\ Signal(W, "new_frame_ready", "w_loop")
    /\ UNCHANGED <<audio_bytes, ini, clk, audio_frame_lock, disp, opt, strm, use_audio, texts, msg_budget, failed, new_msg, paused,
          should_exit, last_vid_pts, video_frame_queue, audio_data_len, lock,
          out, next_id, src_pos, msg_queue, replies, exit_requested,
          seek_call, grab_ret, grab_audio, last_out, period_passed, released,
          hist>>

\* line 256, FAIL_WORKER: lock, s->failed = true, unlock
WorkerFail ==
    /\ pc[W] = "w_fail"
    /\ lock = NoThread
    /\ failed' = TRUE
    /\ Goto(W, "w_failsig")
    /\ UNCHANGED <<audio_bytes, ini, clk, audio_frame_lock, disp, opt, strm, use_audio, texts, msg_budget, new_msg, paused, should_exit,
          last_vid_pts, video_frame_queue, audio_data_len, lock, out,
          next_id, src_pos, msg_queue, replies, exit_requested, seek_call,
          grab_ret, grab_audio, last_out, period_passed, released, hist>>

\* FAIL_WORKER without pthread_cond_signal(&s->new_frame_ready)
WorkerFailNoSignal ==
    /\ pc[W] = "w_failsig"
    /\ Goto(W, "w_done")
    /\ UNCHANGED <<audio_bytes, ini, clk, audio_frame_lock, disp, opt, strm, use_audio, texts, msg_budget, failed, new_msg, paused,
          should_exit, last_vid_pts, video_frame_queue, audio_data_len, lock,
          out, next_id, src_pos, msg_queue, replies, exit_requested,
          seek_call, grab_ret, grab_audio, last_out, period_passed, released,
          hist>>

\* line 256, FAIL_WORKER: signal new_frame_ready and return
WorkerFailSignal ==
    /\ pc[W] = "w_failsig"
    /\ Signal(W, "new_frame_ready", "w_done")
    /\ UNCHANGED <<audio_bytes, ini, clk, audio_frame_lock, disp, opt, strm, use_audio, texts, msg_budget, failed, new_msg, paused,
          should_exit, last_vid_pts, video_frame_queue, audio_data_len, lock,
          out, next_id, src_pos, msg_queue, replies, exit_requested,
          seek_call, grab_ret, grab_audio, last_out, period_passed, released,
          hist>>

Worker ==
    \/ WorkerLoopTest \/ WorkerHead \/ WorkerHeadMsgs
    \/ WorkerMsgSeek \/ WorkerMsgPause \/ WorkerMsgQuit \/ WorkerMsgUnknown
    \/ WorkerMsgsDone \/ WorkerPausedWake
    \/ WorkerReadEof \/ WorkerReadError \/ WorkerReadAudio \/ WorkerReadVideo
    \/ WorkerAudioLock \/ WorkerWriteAudio
    \/ WorkerQueueWait \/ WorkerQueueExit \/ WorkerAppend
    \/ WorkerSignalNewFrame
    \/ WorkerFail \/ WorkerFailSignal

(**************************** consumer ************************************)
\* s->audio_frame as get_audio copies it: zeroed unless audio is captured
AudioFrameDesc ==
    [strm EXCEPT !.sample_rate = IF use_audio THEN @ ELSE 0,
                 !.bps = IF use_audio THEN @ ELSE 0,
                 !.ch_count = IF use_audio THEN @ ELSE 0]

\* line 661: ret->data_len
GetAudioLenNoClamp(desc, buffered) == AudioTarget(desc)
GetAudioLen(desc, buffered) == MIN(AudioTarget(desc), buffered)

\* lines 680-683: lock (on the call from c_idle, or on return from the
\* wait), nothing to take: pthread_cond_wait(&s->new_frame_ready, &s->lock)
GrabWait ==
    /\ pc[C] \in {"c_idle", "c_lock"}
    /\ ~released
    /\ lock = NoThread
    /\ GrabMustWait
    /\ grab_ret' = NoFrame
    /\ grab_audio' = NoAudio
    /\ Goto(C, "c_wait")
    /\ UNCHANGED <<audio_bytes, ini, clk, audio_frame_lock, disp, opt, strm, use_audio, texts, msg_budget, failed, new_msg, paused,
          should_exit, last_vid_pts, video_frame_queue, audio_data_len, lock,
          out, next_id, src_pos, msg_queue, replies, exit_requested,
          seek_call, last_out, period_passed, released, hist>>

\* lines 680-687: lock, failed or should_exit: unlock, return NULL
GrabNull ==
    /\ pc[C] \in {"c_idle", "c_lock"}
    /\ ~released
    /\ lock = NoThread
    /\ ~GrabMustWait
    /\ GrabGivesUp
    /\ grab_ret' = NoFrame
    /\ grab_audio' = NoAudio
    /\ Goto(C, "c_idle")
    /\ UNCHANGED <<audio_bytes, ini, clk, audio_frame_lock, disp, opt, strm, use_audio, texts, msg_budget, failed, new_msg, paused,
          should_exit, last_vid_pts, video_frame_queue, audio_data_len, lock,
          out, next_id, src_pos, msg_queue, replies, exit_requested,
          seek_call, last_out, period_passed, released, hist>>

\* lines 680-689: lock, pop the oldest frame, unlock
GrabPopNewest ==
    /\ pc[C] \in {"c_idle", "c_lock"}
    /\ ~released
    /\ lock = NoThread
    /\ ~GrabMustWait
    /\ ~GrabGivesUp
    /\ grab_ret' = video_frame_queue[Len(video_frame_queue)]
    /\ grab_audio' = NoAudio
    /\ video_frame_queue' =
           SubSeq(video_frame_queue, 1, Len(video_frame_queue) - 1)
    /\ Goto(C, "c_signal")
    /\ UNCHANGED <<audio_bytes, ini, clk, audio_frame_lock, disp, opt, strm, use_audio, texts, msg_budget, failed, new_msg, paused,
          should_exit, last_vid_pts, audio_data_len, lock, out, next_id,
          src_pos, msg_queue, replies, exit_requested, seek_call, last_out,
          period_passed, released, hist>>
GrabPop ==
    /\ pc[C] \in {"c_idle", "c_lock"}
    /\ ~released
    /\ lock = NoThread
    /\ ~GrabMustWait
    /\ ~GrabGivesUp
    /\ grab_ret' = simple_linked_list_first(video_frame_queue)
    /\ grab_audio' = NoAudio
    /\ video_frame_queue' = simple_linked_list_rest(video_frame_queue)
    /\ Goto(C, "c_signal")
    /\ UNCHANGED <<audio_bytes, ini, clk, audio_frame_lock, disp, opt, strm, use_audio, texts, msg_budget, failed, new_msg, paused,
          should_exit, last_vid_pts, audio_data_len, lock, out, next_id,
          src_pos, msg_queue, replies, exit_requested, seek_call, last_out,
          period_passed, released, hist>>

\* line 690: pthread_cond_signal(&s->frame_consumed)
GrabSignal ==
    /\ pc[C] = "c_signal"
    /\ Signal(C, "frame_consumed", "c_audio")
    /\ UNCHANGED <<audio_bytes, ini, clk, audio_frame_lock, disp, opt, strm, use_audio, texts, msg_budget, failed, new_msg, paused,
          should_exit, last_vid_pts, video_frame_queue, audio_data_len, lock,
          out, next_id, src_pos, msg_queue, replies, exit_requested,
          seek_call, grab_ret, grab_audio, last_out, period_passed, released,
          hist>>

\* get_audio entered with s->lock still held
GetAudioLockNested ==
    /\ pc[C] = "c_audio"
    /\ audio_frame_lock = NoThread
    /\ lock = NoThread
    /\ audio_frame_lock' = C
    /\ lock' = C
    /\ UNCHANGED <<audio_bytes, ini, clk, disp, opt, strm, use_audio, texts, msg_budget, failed,
          new_msg, paused, should_exit, last_vid_pts, video_frame_queue,
          audio_data_len, pc, out, next_id, src_pos, msg_queue,
          replies, exit_requested, seek_call, grab_ret, grab_audio, last_out,
          period_passed, released, hist>>

\* line 652: pthread_mutex_lock(&s->audio_frame_lock)
GetAudioLock ==
    /\ pc[C] = "c_audio"
    /\ audio_frame_lock = NoThread
    /\ audio_frame_lock' = C
    /\ UNCHANGED <<audio_bytes, ini, clk, disp, opt, strm, use_audio, texts, msg_budget, failed,
          new_msg, paused, should_exit, last_vid_pts, video_frame_queue,
          audio_data_len, lock, pc, out, next_id, src_pos, msg_queue,
          replies, exit_requested, seek_call, grab_ret, grab_audio, last_out,
          period_passed, released, hist>>

\* lines 652-671, get_audio under s->audio_frame_lock: cut the slice off
\* the buffer
GetAudio ==
    /\ pc[C] = "c_audio"
    /\ audio_frame_lock = C
    /\ audio_frame_lock' = NoThread
    /\ LET n == GetAudioLen(AudioFrameDesc, audio_data_len)
       IN  /\ grab_audio' = [data_len |-> n]
           /\ audio_data_len' = audio_data_len - n
           /\ audio_bytes' = [audio_bytes EXCEPT
                  !.slice = SegTake(audio_bytes.data, n),
                  !.data = ShiftDown(@, n, audio_data_len - n),
                  !.taken = @ + n]
    /\ Goto(C, "c_pace")
    /\ UNCHANGED <<ini, clk, disp, opt, strm, use_audio, texts, msg_budget, failed, new_msg, paused,
          should_exit, last_vid_pts, video_frame_queue, lock, out, next_id,
          src_pos, msg_queue, replies, exit_requested, seek_call, grab_ret,
          last_out, period_passed, released, hist>>

\* lines 694-700: leave the pacing loop and return the frame
GrabReturn ==
    /\ pc[C] = "c_pace"
    /\ period_passed
    /\ period_passed' = FALSE
    /\ last_out' = grab_ret
    /\ Goto(C, "c_idle")
    /\ UNCHANGED <<audio_bytes, ini, clk, audio_frame_lock, disp, opt, strm, use_audio, texts, msg_budget, failed, new_msg, paused,
          should_exit, last_vid_pts, video_frame_queue, audio_data_len, lock,
          out, next_id, src_pos, msg_queue, replies, exit_requested,
          seek_call, grab_ret, grab_audio, released, hist>>

\* the clock read by the pacing loop (line 696) reaches s->last_frame + 1/fps
Tick ==
    /\ pc[C] = "c_pace"
    /\ ~period_passed
    /\ period_passed' = TRUE
    /\ UNCHANGED <<audio_bytes, ini, clk, audio_frame_lock, disp, opt, strm, use_audio, texts, msg_budget, failed, new_msg, paused,
          should_exit, last_vid_pts, video_frame_queue, audio_data_len, lock,
          pc, out, next_id, src_pos, msg_queue, replies, exit_requested,
          seek_call, grab_ret, grab_audio, last_out, released, hist>>

(****************** vidcap_file_should_exit, by thread t ******************)
\* vidcap_file_should_exit that flips the flag instead of setting it
ShouldExitFlip(t, from, to) ==
    /\ pc[t] = from
    /\ ~released
    /\ lock = NoThread
    /\ should_exit' = ~should_exit
    /\ Goto(t, to)
    /\ UNCHANGED <<audio_bytes, ini, clk, audio_frame_lock, disp, opt, strm, use_audio, texts, msg_budget, failed, new_msg, paused,
          last_vid_pts, video_frame_queue, audio_data_len, lock, out,
          next_id, src_pos, msg_queue, replies, exit_requested, seek_call,
          grab_ret, grab_audio, last_out, period_passed, released, hist>>

\* lines 480-482: lock, s->should_exit = true, unlock
ShouldExitSet(t, from, to) ==
    /\ pc[t] = from
    /\ ~released
    /\ lock = NoThread
    /\ should_exit' = TRUE
    /\ Goto(t, to)
    /\ UNCHANGED <<audio_bytes, ini, clk, audio_frame_lock, disp, opt, strm, use_audio, texts, msg_budget, failed, new_msg, paused,
          last_vid_pts, video_frame_queue, audio_data_len, lock, out,
          next_id, src_pos, msg_queue, replies, exit_requested, seek_call,
          grab_ret, grab_audio, last_out, period_passed, released, hist>>

\* lines 483-485: one of the three signals
ShouldExitSignal(t, cv, from, to) ==
    /\ pc[t] = from
    /\ Signal(t, cv, to)
    /\ UNCHANGED <<audio_bytes, ini, clk, audio_frame_lock, disp, opt, strm, use_audio, texts, msg_budget, failed, new_msg, paused,
          should_exit, last_vid_pts, video_frame_queue, audio_data_len, lock,
          out, next_id, src_pos, msg_queue, replies, exit_requested,
          seek_call, grab_ret, grab_audio, last_out, period_passed, released,
          hist>>

ShouldExitSignalsNoPause(t, p) ==
    \/ ShouldExitSignal(t, "new_frame_ready", p \o "_sig1", p \o "_sig2")
    \/ ShouldExitSignal(t, "frame_consumed", p \o "_sig2", p \o "_sig3")
    \/ ShouldExitSignal(t, "frame_consumed", p \o "_sig3", p \o "_end")
ShouldExitSignals(t, p) ==
    \/ ShouldExitSignal(t, "new_frame_ready", p \o "_sig1", p \o "_sig2")
    \/ ShouldExitSignal(t, "frame_consumed", p \o "_sig2", p \o "_sig3")
    \/ ShouldExitSignal(t, "paused_cv", p \o "_sig3", p \o "_end")

\* the callback registered by register_should_exit_callback (line 627)
ExitCallback ==
    \/ ShouldExitSet(X, "x_idle", "x_sig1")
    \/ ShouldExitSignals(X, "x")

\* line 639: vidcap_file_done calls vidcap_file_should_exit
DoneShouldExit ==
    \/ ShouldExitSet(C, "c_idle", "d_sig1")
    \/ ShouldExitSignals(C, "d")

\* vidcap_file_done without pthread_join
DoneCleanupNoJoin ==
    /\ pc[C] = "d_end"
    /\ pc[M] = "m_idle" /\ pc[X] \in {"x_idle", "x_end"}
    /\ video_frame_queue' = <<>>
    /\ released' = TRUE
    /\ Goto(C, "c_closed")
    /\ UNCHANGED <<audio_bytes, ini, clk, audio_frame_lock, disp, opt, strm, use_audio, texts, msg_budget, failed, new_msg, paused,
          should_exit, last_vid_pts, audio_data_len, lock, out, next_id,
          src_pos, msg_queue, replies, exit_requested, seek_call, grab_ret,
          grab_audio, last_out, period_passed, hist>>

\* lines 641-643: pthread_join returns once the worker has, then
\* vidcap_file_common_cleanup; the module is unregistered, so no callback of
\* it is running or starts afterwards
DoneJoinCleanup ==
    /\ pc[C] = "d_end"
    /\ pc[W] = "w_done"
    /\ pc[M] = "m_idle" /\ pc[X] \in {"x_idle", "x_end"}
    /\ video_frame_queue' = <<>>
    /\ released' = TRUE
    /\ Goto(C, "c_closed")
    /\ UNCHANGED <<audio_bytes, ini, clk, audio_frame_lock, disp, opt, strm, use_audio, texts, msg_budget, failed, new_msg, paused,
          should_exit, last_vid_pts, audio_data_len, lock, out, next_id,
          src_pos, msg_queue, replies, exit_requested, seek_call, grab_ret,
          grab_audio, last_out, period_passed, hist>>

Consumer ==
    \/ GrabWait \/ GrabNull \/ GrabPop
    \/ GrabSignal \/ GetAudioLock \/ GetAudio \/ GrabReturn
    \/ DoneShouldExit \/ DoneJoinCleanup

(************************ message deliverer *******************************)
MsgsSent == Len(msg_queue) + Len(replies)

\* the message is queued at the module
MsgSend ==
    /\ pc[M] = "m_idle"
    /\ ~released
    /\ MsgsSent < msg_budget
    /\ \E t \in texts : msg_queue' = Append(msg_queue, t)
    /\ Goto(M, "m_cb")
    /\ UNCHANGED <<audio_bytes, ini, clk, audio_frame_lock, disp, opt, strm, use_audio, texts, msg_budget, failed, new_msg, paused,
          should_exit, last_vid_pts, video_frame_queue, audio_data_len, lock,
          out, next_id, src_pos, replies, exit_requested, seek_call,
          grab_ret, grab_audio, last_out, period_passed, released, hist>>

\* lines 472-474: vidcap_file_new_message: lock, s->new_msg = true, unlock
NewMessageSet ==
    /\ pc[M] = "m_cb"
    /\ lock = NoThread
    /\ new_msg' = TRUE
    /\ Goto(M, "m_sig")
    /\ UNCHANGED <<audio_bytes, ini, clk, audio_frame_lock, disp, opt, strm, use_audio, texts, msg_budget, failed, paused, should_exit,
          last_vid_pts, video_frame_queue, audio_data_len, lock, out,
          next_id, src_pos, msg_queue, replies, exit_requested, seek_call,
          grab_ret, grab_audio, last_out, period_passed, released, hist>>

\* line 475: pthread_cond_signal(&s->paused_cv)
NewMessageSignal ==
    /\ pc[M] = "m_sig"
    /\ Signal(M, "paused_cv", "m_idle")
    /\ UNCHANGED <<audio_bytes, ini, clk, audio_frame_lock, disp, opt, strm, use_audio, texts, msg_budget, failed, new_msg, paused,
          should_exit, last_vid_pts, video_frame_queue, audio_data_len, lock,
          out, next_id, src_pos, msg_queue, replies, exit_requested,
          seek_call, grab_ret, grab_audio, last_out, period_passed, released,
          hist>>

Messenger == MsgSend \/ NewMessageSet \/ NewMessageSignal

\* pthread_cond_wait may return without a signal
SpuriousWakeup ==
    /\ \E cv \in {"new_frame_ready", "frame_consumed", "paused_cv"} :
         LET w == ParkedAt(cv)
         IN  pc[w.t] = w.at /\ Goto(w.t, w.to)
    /\ UNCHANGED <<audio_bytes, ini, clk, audio_frame_lock, disp, opt, strm, use_audio, texts, msg_budget, failed, new_msg, paused,
          should_exit, last_vid_pts, video_frame_queue, audio_data_len, lock,
          out, next_id, src_pos, msg_queue, replies, exit_requested,
          seek_call, grab_ret, grab_audio, last_out, period_passed, released,
          hist>>

Next == Worker \/ Consumer \/ Messenger \/ ExitCallback \/ Tick
        \/ SpuriousWakeup

Spec == Init /\ [][Next]_vars

\* the steps the consumer takes inside a call of grab or done
ConsumerInside == pc[C] # "c_idle" /\ Consumer

\* the steps a callback takes once it has been called
ExitCallbackInside == ShouldExitSignals(X, "x")
MessengerInside == NewMessageSet \/ NewMessageSignal

\* every thread that can take a step eventually does; whether the host
\* calls grab or done again, sends a message or shuts down is left open
Fairness ==
    /\ WF_vars(Worker)
    /\ WF_vars(ConsumerInside)
    /\ WF_vars(ExitCallbackInside)
    /\ WF_vars(MessengerInside)
    /\ WF_vars(Tick)

FairInit == \E r \in ShortRuns : InitRun(r)
FairSpec == FairInit /\ [][Next]_vars /\ Fairness

\* the host keeps calling grab: a call of grab that can start does start
GrabCall == pc[C] = "c_idle" /\ (GrabWait \/ GrabNull \/ GrabPop)

LiveInit == \E r \in ShortRuns \cup BusyMsgRuns : InitRun(r)
LiveSpec == LiveInit /\ [][Next]_vars /\ Fairness /\ WF_vars(GrabCall)

\* the short runs and the runs of the queue option
QueueInit == \E r \in ShortRuns \cup QueueOptRuns : InitRun(r)
QueueSpec == QueueInit /\ [][Next]_vars /\ Fairness

(****************** vidcap_file_process_messages alone ********************)
\* streams: 25 fps with time base 1/90000 and video packets 2.5 s apart,
\* and 2 and 3 fps with time base 1/4. On these the double arithmetic of
\* lines 230-236 is exact or ends far from an integer, so that the
\* rationals of SeekTarget give the value the conversion to int64_t gives.
MsgStreams ==
    {[MainStream(MainFile) EXCEPT !.fps_num = 25, !.tb_den = 90000,
                                  !.start_time = st, !.pts_step = 225000] :
        st \in {0, 1000}}
    \cup {[MainStream(MainFile) EXCEPT !.fps_num = f] : f \in {2, 3}}

\* decimal numeral of n >= 0
RECURSIVE Dec(_)
Dec(n) == IF n < 10 THEN <<Digits[n + 1]>>
          ELSE Dec(n \div 10) \o <<Digits[(n % 10) + 1]>>

\* the text "seek <n>" or "seek <n>s"
SeekText(n, secs) ==
    T_seek \o (IF n < 0 THEN <<"-">> \o Dec(0 - n) ELSE Dec(n))
           \o (IF secs THEN <<"s">> ELSE <<>>)

SeekCounts == {0 - 1, 0, 1, 2, 50}
T_xseek == <<"x">> \o T_seek1
T_seek_only == <<"s", "e", "e", "k">>
T_pause_sp == T_pause \o <<" ">>
T_Quit == <<"Q", "u", "i", "t">>
MsgTexts ==
    {SeekText(n, secs) : n \in SeekCounts, secs \in BOOLEAN}
    \cup {T_pause, T_quit, T_foo, T_xseek, T_seek_only, T_pause_sp, T_Quit,
          <<>>}

\* PTS of the video packets of the file
VideoPts == {PktPts(i) : i \in {j \in 1..NbPackets : PacketKind(j) = "video"}}

\* the worker has the lock and enters vidcap_file_process_messages (line
\* 267) with one message queued, after having read some video packet
MsgInit ==
    /\ opt = Opt(FILE_DEFAULT_QUEUE_LEN, FALSE, TRUE)
    /\ strm \in MsgStreams
    /\ use_audio = FALSE
    /\ texts = MsgTexts
    /\ msg_budget = 1
    /\ failed = FALSE /\ new_msg = TRUE /\ paused \in BOOLEAN
    /\ should_exit = FALSE
    /\ last_vid_pts \in VideoPts
    /\ video_frame_queue = <<>>
    /\ audio_data_len = 0
    /\ lock = W
    /\ pc = [t \in {W, C, M, X} |->
                CASE t = W -> "w_msgs" [] t = C -> "c_idle"
                  [] t = M -> "m_idle" [] t = X -> "x_idle"]
    /\ out = NoFrame /\ next_id = 0
    /\ src_pos = NbPackets + 1
    /\ \E t \in MsgTexts : msg_queue = <<t>>
    /\ replies = <<>>
    /\ exit_requested = FALSE
    /\ seek_call = [set |-> FALSE, for |-> <<>>, ts |-> 0, ok |-> FALSE]
    /\ grab_ret = NoFrame /\ grab_audio = NoAudio
    /\ last_out = [pts |-> 0 - 1, id |-> IdMod - 1]
    /\ period_passed = TRUE
    /\ released = FALSE
    /\ hist = [PauseHist0 EXCEPT !.seg_base = paused]
    /\ disp = Disp0
    /\ clk = Clk0
    /\ ini = Ini0(<<>>, FALSE)
    /\ audio_frame_lock = NoThread
    /\ audio_bytes = AudioBytes0

MsgNext ==
    \/ WorkerMsgSeek \/ WorkerMsgPause \/ WorkerMsgQuit \/ WorkerMsgUnknown
    \/ WorkerMsgsDone

MsgSpec == MsgInit /\ [][MsgNext]_vars

(***************************** get_audio alone ****************************)
\* audio and video parameters; on these the double arithmetic of line 661
\* gives the value the rationals of AudioTarget give
AudioStreams ==
    {[MainStream(MainFile) EXCEPT !.sample_rate = sr, !.fps_num = f[1],
                                  !.fps_den = f[2], !.bps = b,
                                  !.ch_count = ch] :
        sr \in {8000, 44100, 48000}, f \in {<<25, 1>>, <<30000, 1001>>},
        b \in {1, 2}, ch \in {1, 2}}

\* buffered lengths: none, less than the slice, the slice, more, a full
\* buffer
AudioLens(sp) ==
    {0, 1, AudioTarget(sp) - 1, AudioTarget(sp), AudioTarget(sp) + 1,
     sp.bps * sp.ch_count * sp.sample_rate}

\* vidcap_file_grab has popped the first frame and calls get_audio
\* (line 692)
AudioInit ==
    /\ opt = Opt(FILE_DEFAULT_QUEUE_LEN, FALSE, TRUE)
    /\ strm \in AudioStreams
    /\ use_audio = TRUE
    /\ texts = {}
    /\ msg_budget = 0
    /\ failed = FALSE /\ new_msg = FALSE /\ paused = FALSE
    /\ should_exit = FALSE
    /\ last_vid_pts = PktPts(1)
    /\ video_frame_queue = <<>>
    /\ audio_data_len \in AudioLens(strm)
    /\ lock = NoThread
    /\ pc = [t \in {W, C, M, X} |->
                CASE t = W -> "w_loop" [] t = C -> "c_audio"
                  [] t = M -> "m_idle" [] t = X -> "x_idle"]
    /\ out = NoFrame /\ next_id = 1
    /\ src_pos = 2
    /\ msg_queue = <<>> /\ replies = <<>>
    /\ exit_requested = FALSE
    /\ seek_call = [set |-> FALSE, for |-> <<>>, ts |-> 0, ok |-> FALSE]
    /\ grab_ret = [pts |-> PktPts(1), id |-> 0] /\ grab_audio = NoAudio
    /\ last_out = [pts |-> 0 - 1, id |-> IdMod - 1]
    /\ period_passed \in BOOLEAN
    /\ released = FALSE
    /\ hist = PauseHist0
    /\ disp = Disp0
    /\ clk = Clk0
    /\ ini = Ini0(<<>>, FALSE)
    /\ audio_frame_lock = C
    /\ audio_bytes = [AudioBytes0 EXCEPT
                          !.data = SegAppend(<<>>, 0, audio_data_len),
                          !.written = audio_data_len]

AudioNext == GetAudio \/ Tick \/ GrabReturn

AudioSpec == AudioInit /\ [][AudioNext]_vars

(******************** registry and dispatch, the calls *********************)
\* identities passed to vidcap_init: 0 is the id of the static table, the
\* last one belongs to no backend
InitIds == 0..(TableSize + 1)
\* configuration strings passed to vidcap_init
InitFmts == {"", "help", "fullhelp", "clip.mp4"}
\* indices passed to vidcap_get_device_details
DetailIdx == (0 - 1)..TableSize
\* what a caller passes as the handle: the struct vidcap it got from
\* vidcap_init, or an object that is no struct vidcap
HandleArgs == {"handle", "other"}

Call(fn, arg, outcome, ret) ==
    [NoCall EXCEPT !.fn = fn, !.arg = arg, !.outcome = outcome, !.ret = ret]

Abort(fn, arg) ==
    disp' = [disp EXCEPT !.aborted = TRUE, !.last = Call(fn, arg, "abort", 0)]

\* what opening the libraries gives in one probe pass: whether the library
\* of an entry opens, and which of its four symbols dlsym then finds (all
\* of them, or all but one)
LoadOutcomes ==
    [ModuleEntries ->
        [open : BOOLEAN,
         syms : {EntryPoints} \cup {EntryPoints \ {e} : e \in EntryPoints}]]

\* lines 355-361 for every entry: the handle is set to what
\* vidcap_open_library returns and, when it is not null,
\* vidcap_fill_symbols assigns the four pointers
Load(d, ld) ==
    [d EXCEPT
        !.lib_handle = [i \in TableIdx |->
            IF d.library_name[i] # NULL /\ ld[i].open THEN "open" ELSE NULL],
        !.resolved = [i \in TableIdx |->
            IF d.library_name[i] # NULL /\ ld[i].open THEN ld[i].syms
            ELSE @[i]]]

\* lines 356-365: the entry is passed over (continue) when its library did
\* not open or vidcap_fill_symbols returned FALSE
Skipped(d, i) ==
    /\ d.library_name[i] # NULL
    /\ d.lib_handle[i] = NULL \/ d.resolved[i] # EntryPoints

\* the loop of vidcap_init_devices without the test of line 370: what
\* func_probe returns is registered whether or not it is null
RECURSIVE ProbeFromAll(_, _, _)
ProbeFromAll(d, ok, i) ==
    IF i >= TableSize THEN d
    ELSE IF Skipped(d, i) THEN ProbeFromAll(d, ok, i + 1)
    ELSE ProbeFromAll([d EXCEPT
             !.ids[i] = d.dt_id[i],
             !.available_devices[d.available_device_count] = Descriptor(i),
             !.available_device_count = d.available_device_count + 1],
             ok, i + 1)

\* the loop of vidcap_init_devices over entries i..TableSize-1, ok[i] telling
\* whether func_probe of entry i returned a descriptor
RECURSIVE ProbeFrom(_, _, _)
ProbeFrom(d, ok, i) ==
    IF i >= TableSize THEN d
    ELSE IF Skipped(d, i) THEN ProbeFrom(d, ok, i + 1)
    ELSE IF ok[i]
         THEN ProbeFrom([d EXCEPT
                  !.ids[i] = d.dt_id[i],
                  !.available_devices[d.available_device_count] = Descriptor(i),
                  !.available_device_count = d.available_device_count + 1],
                  ok, i + 1)
         ELSE ProbeFrom(d, ok, i + 1)

vidcap_init_devices ==
    /\ ~disp.aborted
    /\ IF disp.available_device_count # 0
       THEN Abort("vidcap_init_devices", 0)
       ELSE \E ok \in [TableIdx -> BOOLEAN], ld \in LoadOutcomes :
              LET d0 == Load(disp, ld)
                  d == ProbeFrom(d0, ok, 0)
              IN disp' = [d EXCEPT
                     !.probed = TRUE,
                     !.last = [Call("vidcap_init_devices",
                                    IF disp.probed THEN 1 ELSE 0,
                                    "return", d.available_device_count)
                               EXCEPT !.probes =
                                   {i \in TableIdx : ~Skipped(d0, i)},
                                      !.found =
                                   {i \in TableIdx :
                                       ~Skipped(d0, i) /\ ok[i]}]]
    /\ UNCHANGED <<fvars, clk, ini>>

vidcap_free_devices ==
    /\ ~disp.aborted
    /\ disp' = [disp EXCEPT
           !.available_devices =
               [i \in TableIdx |->
                   IF i < disp.available_device_count THEN NULL ELSE @[i]],
           !.available_device_count = 0,
           !.probed = FALSE,
           !.last = Call("vidcap_free_devices", 0, "return", 0)]
    /\ UNCHANGED <<fvars, clk, ini>>

\* available_devices[index] for index < 0 is a read outside the array: what
\* it yields is not defined, either a null pointer or anything else
vidcap_get_device_details(index) ==
    /\ ~disp.aborted
    /\ IF ~(index < disp.available_device_count)
       THEN Abort("vidcap_get_device_details", index)
       ELSE \E entry \in (IF index < 0 THEN {NULL, "outside"}
                          ELSE {disp.available_devices[index]}) :
              IF entry = NULL
              THEN Abort("vidcap_get_device_details", index)
              ELSE disp' = [disp EXCEPT
                       !.last = [Call("vidcap_get_device_details", index,
                                      "return", 0) EXCEPT !.entry = entry]]
    /\ UNCHANGED <<fvars, clk, ini>>

\* first entry of the table whose id is id, NoBackend when there is none
MatchIndexOrFirst(ids, id) ==
    IF \E i \in TableIdx : ids[i] = id
    THEN CHOOSE i \in TableIdx :
             ids[i] = id /\ \A j \in TableIdx : ids[j] = id => i <= j
    ELSE 0

MatchIndex(ids, id) ==
    IF \E i \in TableIdx : ids[i] = id
    THEN CHOOSE i \in TableIdx :
             ids[i] = id /\ \A j \in TableIdx : ids[j] = id => i <= j
    ELSE NoBackend

\* vidcap_file_init that takes "help" for a file name
vidcap_file_init_NoHelp(fmt) ==
    IF fmt = "" THEN {NULL} ELSE {NULL, INIT_STATE}

\* what vidcap_file_init can give for a configuration string: nothing
\* (VIDCAP_INIT_FAIL), the no-error sentinel (VIDCAP_INIT_NOERR), or a state
\* with its worker thread started (VIDCAP_INIT_OK); opening a file can fail
vidcap_file_init(fmt) ==
    IF fmt = "" THEN {NULL}
    ELSE IF fmt \in {"help", "fullhelp"} THEN {INIT_NOERR}
    ELSE {NULL, INIT_STATE}

\* func_init of entry i
func_init(i, fmt) ==
    IF i = FileIdx THEN vidcap_file_init(fmt)
    ELSE {NULL, INIT_NOERR, INIT_STATE}

\* the caller holds at most one handle at a time; a call through a function
\* pointer that is null ends the process
vidcap_init(id, fmt) ==
    /\ ~disp.aborted
    /\ disp.handle.st # "live"
    /\ LET i == MatchIndex(disp.ids, id)
           call == [NoCall EXCEPT !.fn = "vidcap_init", !.arg = id,
                                  !.fmt = fmt, !.outcome = "return"]
       IN IF i = NoBackend
          THEN disp' = [disp EXCEPT !.last = [call EXCEPT !.ret = 0 - 1]]
          ELSE IF "init" \notin disp.resolved[i]
          THEN Abort("vidcap_init", id)
          ELSE \E st \in func_init(i, fmt) :
                 LET made == i = FileIdx /\ st = INIT_STATE
                     c == [call EXCEPT !.called = i, !.init = st]
                 IN IF st = NULL
                    THEN disp' = [disp EXCEPT
                             !.last = [c EXCEPT !.ret = 0 - 1]]
                    ELSE IF st = INIT_NOERR
                    THEN disp' = [disp EXCEPT !.last = [c EXCEPT !.ret = 1]]
                    ELSE disp' = [disp EXCEPT
                             !.handle = [st |-> "live",
                                         magic |-> VIDCAP_MAGIC,
                                         index |-> i],
                             !.slot = "handle",
                             !.worker = @ \/ made,
                             !.last = [c EXCEPT !.ret = 0]]
    /\ UNCHANGED <<fvars, clk, ini>>

\* state->magic == VIDCAP_MAGIC as the assertion of vidcap_done and
\* vidcap_grab can read it: a freed struct vidcap keeps its bytes or not
TagReads(h) ==
    IF h = "other" THEN {FALSE}
    ELSE IF disp.handle.st = "freed" THEN {TRUE, FALSE}
    ELSE {disp.handle.magic = VIDCAP_MAGIC}

\* func_done / func_grab of the handle's entry is set
Callable(h, tag, ep) ==
    tag /\ h = "handle" => ep \in disp.resolved[disp.handle.index]

Dispatch(fn, h, tag, ep) ==
    [NoCall EXCEPT !.fn = fn,
                   !.outcome = IF tag /\ Callable(h, tag, ep)
                               THEN "dispatch" ELSE "abort",
                   !.called = IF tag /\ Callable(h, tag, ep)
                              THEN disp.handle.index ELSE NoBackend,
                   !.closed = (h = "handle" /\ disp.handle.st = "freed"),
                   !.tag_ok = (h = "handle")]

vidcap_done(h) ==
    /\ ~disp.aborted
    /\ h = "handle" => disp.slot = "handle"
    /\ \E tag \in TagReads(h) :
         disp' = [disp EXCEPT
             !.aborted = ~tag \/ ~Callable(h, tag, "done"),
             !.handle.st = IF tag /\ Callable(h, tag, "done")
                           THEN "freed" ELSE @,
             !.worker = IF tag /\ disp.handle.index = FileIdx THEN FALSE ELSE @,
             !.last = Dispatch("vidcap_done", h, tag, "done")]
    /\ UNCHANGED <<fvars, clk, ini>>

vidcap_grab(h) ==
    /\ ~disp.aborted
    /\ h = "handle" => disp.slot = "handle"
    /\ \E tag \in TagReads(h) :
         disp' = [disp EXCEPT
             !.aborted = ~tag \/ ~Callable(h, tag, "grab"),
             !.last = Dispatch("vidcap_grab", h, tag, "grab")]
    /\ UNCHANGED <<fvars, clk, ini>>

DispInit == InitRun(Run(Opt(FILE_DEFAULT_QUEUE_LEN, FALSE, TRUE), FALSE, {}, 0,
                        EmptyFile))

DispNext ==
    \/ vidcap_init_devices
    \/ vidcap_free_devices
    \/ \E index \in DetailIdx : vidcap_get_device_details(index)
    \/ \E id \in InitIds, fmt \in InitFmts : vidcap_init(id, fmt)
    \/ \E h \in HandleArgs : vidcap_done(h)
    \/ \E h \in HandleArgs : vidcap_grab(h)

DispSpec == DispInit /\ [][DispNext]_vars

\* the same calls on a build whose optional backends are modules
\* (BUILD_LIBRARIES)
LibInit == InitRunOn(Run(Opt(FILE_DEFAULT_QUEUE_LEN, FALSE, TRUE), FALSE, {},
                            0, EmptyFile), LibDisp0)

LibSpec == LibInit /\ [][DispNext]_vars

\* the probing calls alone, on the build with modules
ProbeNext ==
    \/ vidcap_init_devices
    \/ vidcap_free_devices
    \/ \E index \in DetailIdx : vidcap_get_device_details(index)

ProbeSpec == LibInit /\ [][ProbeNext]_vars

\* the same calls on a build in which two backends share an identity
ClashInit == InitRunOn(Run(Opt(FILE_DEFAULT_QUEUE_LEN, FALSE, TRUE), FALSE,
                           {}, 0, EmptyFile), ClashDisp0)

ClashSpec == ClashInit /\ [][DispNext]_vars

(********************* vidcap_file_init, step by step **********************)
Item(key, val) == [key |-> key, val |-> val]
\* the items of a configuration string: "loop", "codec=UYVY", ...
Items ==
    {Item("loop", ""), Item("nodecode", ""), Item("opportunistic_audio", ""),
     Item("codec", "UYVY"), Item("codec", "bogus"), Item("queue", "2"),
     Item("threads", "2FS"), Item("bogus", "")}
\* the names get_codec_from_name knows
KnownCodecs == {"UYVY"}
InitItemLists ==
    UNION {[1..n -> Items] : n \in 0..MaxItems}

\* vidcap_file_common_cleanup that leaves the format context open
CleanupKeepsFmtCtx(i) ==
    LET conditional == {"sws_ctx", "vid_ctx", "aud_ctx",
                        "audio_frame.data"} \cap i.held
        always == BaseResources \cup {"src_filename"}
        freed == conditional \cup always
    IN [i EXCEPT
           !.held = @ \ freed,
           !.released = [r \in Resources |->
                            IF r \in freed THEN @[r] + 1 ELSE @[r]]]

\* lines 153-182: the contexts are released when set, free() of the audio
\* data does nothing on a null pointer, the rest is released in any case
vidcap_file_common_cleanup(i) ==
    LET conditional == {"sws_ctx", "vid_ctx", "aud_ctx", "fmt_ctx",
                        "audio_frame.data"} \cap i.held
        always == BaseResources \cup {"src_filename"}
        freed == conditional \cup always
    IN [i EXCEPT
           !.held = @ \ freed,
           !.released = [r \in Resources |->
                            IF r \in freed THEN @[r] + 1 ELSE @[r]]]

Acquire(i, rs) == [i EXCEPT !.held = @ \cup rs, !.acquired = @ \cup rs]

\* vidcap_file_common_cleanup(s); return VIDCAP_INIT_FAIL;
InitFail(i) ==
    [vidcap_file_common_cleanup(i) EXCEPT
        !.at = "returned", !.ret = "VIDCAP_INIT_FAIL"]

\* lines 411-441, the items from the k-th on: the options set so far stay
\* set when a later item is refused
RECURSIVE vidcap_file_parse_fmt(_, _)
vidcap_file_parse_fmt(i, k) ==
    IF k > Len(i.fmt) THEN [ok |-> TRUE, i |-> i]
    ELSE LET item == i.fmt[k]
         IN IF item.key = "loop"
            THEN vidcap_file_parse_fmt([i EXCEPT !.loop = TRUE], k + 1)
            ELSE IF item.key = "nodecode"
            THEN vidcap_file_parse_fmt([i EXCEPT !.no_decode = TRUE], k + 1)
            ELSE IF item.key = "opportunistic_audio"
            THEN vidcap_file_parse_fmt(
                     [i EXCEPT !.opportunistic_audio = TRUE], k + 1)
            ELSE IF item.key = "codec"
            THEN IF item.val \in KnownCodecs
                 THEN vidcap_file_parse_fmt(i, k + 1)
                 ELSE [ok |-> FALSE, i |-> i]
            ELSE IF item.key \in {"queue", "threads"}
            THEN vidcap_file_parse_fmt(i, k + 1)
            ELSE [ok |-> FALSE, i |-> i]

\* lines 506-524: calloc, the queue, the mutexes and condition variables,
\* the module
InitAlloc ==
    /\ ini.at = "alloc"
    /\ ini' = [Acquire(ini, BaseResources) EXCEPT !.at = "parse"]
    /\ UNCHANGED <<fvars, disp, clk>>

\* lines 526-529: vidcap_file_parse_fmt, which begins with the strdup of
\* line 409
InitParseFmt ==
    /\ ini.at = "parse"
    /\ LET p == vidcap_file_parse_fmt(Acquire(ini, {"src_filename"}), 1)
       IN ini' = IF p.ok THEN [p.i EXCEPT !.at = "open"] ELSE InitFail(p.i)
    /\ UNCHANGED <<fvars, disp, clk>>

\* lines 531-544: avformat_open_input, which leaves s->fmt_ctx null when it
\* fails, and avformat_find_stream_info
InitOpenInput ==
    /\ ini.at = "open"
    /\ \E opened \in BOOLEAN, info \in BOOLEAN :
         ini' = IF ~opened THEN InitFail(ini)
                ELSE IF ~info THEN InitFail(Acquire(ini, {"fmt_ctx"}))
                ELSE [Acquire(ini, {"fmt_ctx"}) EXCEPT !.at = "audio"]
    /\ UNCHANGED <<fvars, disp, clk>>

\* lines 546-571: the audio stream, when the flags ask for audio
InitAudio ==
    /\ ini.at = "audio"
    /\ IF ~ini.audio
       THEN ini' = [ini EXCEPT !.at = "video"]
       ELSE \E found \in BOOLEAN, dec_ctx \in BOOLEAN :
              ini' = IF ~found
                     THEN IF ini.opportunistic_audio
                          THEN [ini EXCEPT !.at = "video"]
                          ELSE InitFail(ini)
                     ELSE IF ~dec_ctx THEN InitFail(ini)
                     ELSE [Acquire(ini, {"aud_ctx", "audio_frame.data"})
                              EXCEPT !.use_audio = TRUE, !.at = "video"]
    /\ UNCHANGED <<fvars, disp, clk>>

\* lines 573-614: the video stream, its codec or decoder, the conversion
InitVideo ==
    /\ ini.at = "video"
    /\ \E found \in BOOLEAN, supported \in BOOLEAN, dec_ctx \in BOOLEAN,
          conv_uv \in BOOLEAN, sws \in BOOLEAN :
         ini' = IF ~found THEN InitFail(ini)
                ELSE IF ini.no_decode
                THEN IF supported THEN [ini EXCEPT !.at = "start"]
                     ELSE InitFail(ini)
                ELSE IF ~dec_ctx THEN InitFail(ini)
                ELSE IF conv_uv
                THEN [Acquire(ini, {"vid_ctx"}) EXCEPT !.at = "start"]
                ELSE IF sws
                THEN [Acquire(ini, {"vid_ctx", "sws_ctx"})
                         EXCEPT !.at = "start"]
                ELSE InitFail(Acquire(ini, {"vid_ctx"}))
    /\ UNCHANGED <<fvars, disp, clk>>

\* lines 618-632: the callbacks, pthread_create, *state = s
InitStart ==
    /\ ini.at = "start"
    /\ ini' = [ini EXCEPT !.callback = TRUE, !.worker = TRUE,
                          !.state_written = TRUE,
                          !.ret = "VIDCAP_INIT_OK", !.at = "returned"]
    /\ UNCHANGED <<fvars, disp, clk>>

\* a call of vidcap_file_init begins, with any list of items and flags; the
\* variables of a running handle are not in use
FileInitInit ==
    /\ opt = Opt(FILE_DEFAULT_QUEUE_LEN, FALSE, TRUE)
    /\ strm = MainStream(EmptyFile)
    /\ use_audio = FALSE
    /\ texts = {}
    /\ msg_budget = 0
    /\ pc = [t \in {W, C, M, X} |->
                CASE t = W -> "w_done" [] t = C -> "c_closed"
                  [] t = M -> "m_idle" [] t = X -> "x_idle"]
    /\ InitState
    /\ disp = Disp0
    /\ ini \in {Ini0(f, a) : f \in InitItemLists, a \in BOOLEAN}

FileInitNext ==
    \/ InitAlloc \/ InitParseFmt \/ InitOpenInput
    \/ InitAudio \/ InitVideo \/ InitStart

FileInitSpec == FileInitInit /\ [][FileInitNext]_vars

(*************************** pacing of grab *******************************)
\* the clock goes on, wherever the consumer is
PaceClock ==
    /\ clk.now < MaxTime
    /\ clk' = [clk EXCEPT !.now = @ + 1]
    /\ UNCHANGED <<fvars, disp, ini>>

\* lines 680-692: grab is called and has a frame at once, however early
PaceGrab ==
    /\ clk.at = "idle"
    /\ clk' = [clk EXCEPT !.at = "loop"]
    /\ UNCHANGED <<fvars, disp, ini>>

\* the pacing loop without its test
PaceReadNoWait ==
    /\ clk.at = "loop"
    /\ clk' = [clk EXCEPT !.t = clk.now, !.at = "store"]
    /\ UNCHANGED <<fvars, disp, ini>>

\* lines 695-697: gettimeofday(&t), and the loop test
\* tv_diff(t, s->last_frame) < 1 / s->video_desc.fps
PaceRead ==
    /\ clk.at = "loop"
    /\ clk' = [clk EXCEPT
           !.t = clk.now,
           !.at = IF clk.now - clk.last_frame < PacePeriod
                  THEN "loop" ELSE "store"]
    /\ UNCHANGED <<fvars, disp, ini>>

\* line 698: s->last_frame = t
PaceStore ==
    /\ clk.at = "store"
    /\ clk' = [clk EXCEPT !.last_frame = clk.t, !.at = "ret"]
    /\ UNCHANGED <<fvars, disp, ini>>

\* line 700: return out
PaceReturn ==
    /\ clk.at = "ret"
    /\ clk' = [clk EXCEPT
           !.at = "idle",
           !.returns = IF @ < 2 THEN @ + 1 ELSE @,
           !.ret_prev = clk.ret_last, !.ret_last = clk.now,
           !.stamp_prev = clk.stamp_last, !.stamp_last = clk.last_frame]
    /\ UNCHANGED <<fvars, disp, ini>>

PaceInit == InitRun(Run(Opt(FILE_DEFAULT_QUEUE_LEN, FALSE, TRUE), FALSE, {}, 0,
                        VideoFile))

PaceNext ==
    PaceClock \/ PaceGrab \/ PaceRead \/ PaceStore \/ PaceReturn

PaceSpec == PaceInit /\ [][PaceNext]_vars

(***************************** claims *************************************)
\* C1: once should_exit has been set - by the callback or by
\* vidcap_file_done, wherever the worker and the consumer are - the worker
\* thread eventually returns, so the join of vidcap_file_done completes.
C1_ShutdownTerminates == should_exit ~> (pc[W] = "w_done")

\* the flag is set while the worker is parked in the paused wait and the
\* consumer in the empty-queue wait
C1_Witness ==
    should_exit /\ pc[X] = "x_sig1" /\ pc[W] = "w_pwait" /\ pc[C] = "c_wait"

\* C2: the video frame queue never holds more than max_queue_len frames
\* (the queue only grows by the worker's append).
C2_QueueAtMostMax ==
    simple_linked_list_size(video_frame_queue) <= opt.max_queue_len

\* C3: the frames returned by successive successful grabs are the appended
\* frames in the order of their allocation: each frame taken off the queue
\* is the successor of the frame the previous grab returned.
C3_FifoDelivery ==
    pc[C] \in {"c_signal", "c_audio", "c_pace"}
        => grab_ret.id = (last_out.id + 1) % IdMod

\* a third frame is being returned while two more are queued
C3_Witness ==
    /\ pc[C] = "c_pace" /\ grab_ret.id = 2 /\ last_out.id = 1
    /\ Len(video_frame_queue) = 2

\* a step of the critical section of vidcap_file_grab (lines 680-689)
GrabStep == GrabWait \/ GrabNull \/ GrabPop

\* C4: grab takes a frame only when the queue is not empty and neither
\* failed nor should_exit is set, and then removes exactly the oldest one;
\* when failed or should_exit is set it returns NULL and leaves the queue
\* as it is.
C4_GrabContract ==
    [][GrabStep =>
         /\ pc'[C] = "c_signal" =>
              /\ video_frame_queue # <<>> /\ ~failed /\ ~should_exit
              /\ grab_ret' = Head(video_frame_queue)
              /\ video_frame_queue' = Tail(video_frame_queue)
         /\ (failed \/ should_exit) =>
              /\ pc'[C] = "c_idle" /\ grab_ret' = NoFrame
              /\ video_frame_queue' = video_frame_queue
         /\ pc'[C] # "c_signal" => video_frame_queue' = video_frame_queue
      ]_vars

\* grab has returned NULL after should_exit although two frames are queued
C4_Witness ==
    /\ pc[C] = "c_idle" /\ grab_ret = NoFrame /\ should_exit
    /\ last_out.id = 0 /\ Len(video_frame_queue) = 2

\* the consumer parked on the empty queue returns once a frame is queued
ConsumerWoken ==
    (pc[C] = "c_wait" /\ video_frame_queue # <<>>) ~> (pc[C] = "c_idle")

\* the worker parked on the full queue with a frame in hand
WorkerParkedRoom ==
    /\ pc[W] = "w_qwait"
    /\ ~QueueFull(video_frame_queue, opt.max_queue_len)

\* C5: a consumer parked on the empty queue returns after the next append,
\* and a worker parked on the full queue, after the next pop, appends its
\* frame or - should_exit having been set - disposes of it and returns.
C5_NoLostWakeup ==
    /\ ConsumerWoken
    /\ WorkerParkedRoom ~> (pc[W] \in {"w_signal", "w_done"})

\* the worker is parked on the full queue, the consumer has popped and not
\* yet signalled
C5_Witness == WorkerParkedRoom /\ pc[C] = "c_signal" /\ ~should_exit

\* C5 as stated: the worker parked on the full queue appends its frame
\* after the next pop
C5_AsStated ==
    /\ ConsumerWoken
    /\ WorkerParkedRoom ~> (pc[W] = "w_signal")

\* a "pause" message has just been processed
PauseProcessed == hist'.all_k # hist.all_k

\* C6 as stated: after k "pause" messages the paused flag is its value
\* before the first of them if k is even and the negation of it if k is odd.
C6_AsStated ==
    [][PauseProcessed =>
         paused' = XOR(hist'.all_base, hist'.all_k % 2 = 1)]_vars

\* C6: after k "pause" messages processed since the worker last reached the
\* end of the file with loop off (which sets the flag), the paused flag is
\* its value before the first of them if k is even and the negation of it if
\* k is odd; before the first end of file the value before is the initial
\* one.
C6_PauseToggle == paused = XOR(hist.seg_base, hist.seg_k % 2 = 1)

\* the end of the file has set the flag and two "pause" messages have been
\* processed since
C6_Witness == hist.seg_base /\ hist.seg_k = 2 /\ paused

\* a text that is one of the messages: "pause", "quit", "seek ..."
KnownText(t) ==
    \/ t = T_pause
    \/ t = T_quit
    \/ Len(t) >= Len(T_seek) /\ SubSeq(t, 1, Len(T_seek)) = T_seek

\* the worker takes a message off the module's queue
MsgProcessed ==
    /\ pc[W] = "w_msgs" /\ msg_queue # <<>>
    /\ msg_queue' = Tail(msg_queue)

\* C7: a message whose text is none of pause / seek / quit is answered with
\* a bad-request response and leaves paused, should_exit, failed, the source
\* position and the frame queue as they are.
C7_UnknownRejected ==
    [][MsgProcessed /\ ~KnownText(Head(msg_queue)) =>
         /\ replies' = Append(replies, RESPONSE_BAD_REQUEST)
         /\ UNCHANGED <<paused, should_exit, failed, src_pos,
                        video_frame_queue>>
      ]_vars

\* stream_start + last_pts + offset, the offset being n seconds or n frames
\* in units of the time base tb_num / tb_den, converted to an integer
SeekExpected(n, secs) ==
    LET base == strm.start_time + last_vid_pts
        offN == IF secs THEN n * strm.tb_den
                ELSE n * strm.fps_den * strm.tb_den
        offD == IF secs THEN strm.tb_num ELSE strm.fps_num * strm.tb_num
    IN  Trunc(base * offD + offN, offD)

T_seek2s == <<"s", "e", "e", "k", " ", "2", "s">>
T_seek50 == <<"s", "e", "e", "k", " ", "5", "0">>

\* C8: the ts argument of the seek issued for "seek <n>s" is stream_start +
\* last_pts + n * den / num and for "seek <n>" stream_start + last_pts +
\* (n / fps) * den / num (the integer part of it); with fps 25, time base
\* 1/90000 and last pts 450000 both "seek 2s" and "seek 50" give
\* stream_start + 630000.
C8_SeekArithmetic ==
    [][MsgProcessed =>
         /\ \A n \in SeekCounts, secs \in BOOLEAN :
              Head(msg_queue) = SeekText(n, secs) =>
                  /\ seek_call'.set /\ seek_call'.for = Head(msg_queue)
                  /\ seek_call'.ts = SeekExpected(n, secs)
         /\ /\ Head(msg_queue) \in {T_seek2s, T_seek50}
            /\ strm.fps_num = 25 /\ strm.fps_den = 1
            /\ strm.tb_num = 1 /\ strm.tb_den = 90000
            /\ last_vid_pts = 450000
            => seek_call'.ts = strm.start_time + 630000
      ]_vars

\* "seek 50" has been processed at 25 fps, time base 1/90000, last pts 450000
C8_Witness ==
    /\ seek_call.set /\ seek_call.for = T_seek50
    /\ strm.fps_num = 25 /\ strm.tb_den = 90000 /\ last_vid_pts = 450000
    /\ seek_call.ts = strm.start_time + 630000

\* C9: when a seek message is processed after grab has returned a frame, the
\* PTS the target is computed from (s->last_vid_pts) is the PTS of the frame
\* grab returned last.
C9_SeekFromReturned ==
    [][MsgProcessed /\ seek_call' # seek_call /\ last_out.pts >= 0 =>
         last_vid_pts = last_out.pts]_vars

\* smallest integer not below p / q (p >= 0, q > 0)
CeilDiv(p, q) == (p + q - 1) \div q

\* get_audio cuts a slice off the buffer
GetAudioDone == pc[C] = "c_audio" /\ pc'[C] = "c_pace"

\* C10 as stated: data_len = min(ceil(1.05 * sample_rate / fps) * bps *
\* channels, L).
C10_AsStated ==
    [][GetAudioDone =>
         grab_audio'.data_len =
             MIN(CeilDiv(21 * strm.sample_rate * strm.fps_den,
                         20 * strm.fps_num) * strm.bps * strm.ch_count,
                 audio_data_len)]_vars

\* C10: data_len = min(floor(1.05 * sample_rate / fps) * bps * channels, L),
\* which never exceeds the L bytes buffered; the slice is taken off the
\* buffer.
C10_AudioSlice ==
    [][GetAudioDone =>
         /\ grab_audio'.data_len =
               MIN(((21 * strm.sample_rate * strm.fps_den)
                       \div (20 * strm.fps_num)) * strm.bps * strm.ch_count,
                   audio_data_len)
         /\ grab_audio'.data_len <= audio_data_len
         /\ audio_data_len' = audio_data_len - grab_audio'.data_len
      ]_vars

\* 44100 Hz, 25 fps, mono, one byte per sample, more buffered than the
\* slice: 1852 bytes are returned, of 1852.2 samples per frame period
C10_Witness ==
    /\ pc[C] = "c_pace" /\ grab_audio.data_len = 1852
    /\ strm.sample_rate = 44100 /\ strm.fps_num = 25 /\ strm.fps_den = 1
    /\ strm.bps = 1 /\ strm.ch_count = 1
    /\ audio_data_len > 0

\* 25 fps, 48000 Hz, two bytes per sample, two channels
C11_Params ==
    /\ strm.fps_num = 25 /\ strm.fps_den = 1 /\ strm.sample_rate = 48000
    /\ strm.bps = 2 /\ strm.ch_count = 2

\* C11 as stated: with these parameters the audio frame of one get_audio
\* call holds at most 4036 bytes and at most the buffered length.
C11_AsStated ==
    [][GetAudioDone /\ C11_Params =>
         /\ grab_audio'.data_len <= 4036
         /\ grab_audio'.data_len <= audio_data_len]_vars

\* C11: with these parameters the audio frame of one get_audio call holds
\* at most 2016 * 2 * 2 = 8064 bytes and at most the buffered length.
C11_SliceBound ==
    [][GetAudioDone /\ C11_Params =>
         /\ grab_audio'.data_len <= 8064
         /\ grab_audio'.data_len <= audio_data_len]_vars

\* a full slice of 8064 bytes has been returned, more being buffered
C11_Witness ==
    /\ C11_Params /\ pc[C] = "c_pace"
    /\ grab_audio.data_len = 8064 /\ audio_data_len > 0

\* C12: when audio is not captured, a grab that has returned a video frame
\* has returned no audio frame (*audio is NULL).
C12_NoAudioFrame ==
    ~use_audio /\ pc[C] = "c_idle" /\ grab_ret # NoFrame
        => grab_audio = NoAudio

\* a step that is a call of fn (every call records itself in disp.last)
DispCall(fn) == disp' # disp /\ disp'.last.fn = fn

\* C13: vidcap_init with an identity that no entry of the table carries
\* returns -1, calls no backend's init, and leaves the caller's handle slot
\* (and the handle it may point to) as it was.
C13_UnknownIdFails ==
    [][DispCall("vidcap_init")
       /\ (\A i \in TableIdx : disp.ids[i] # disp'.last.arg)
           => /\ disp'.last.ret = 0 - 1
              /\ disp'.last.called = NoBackend
              /\ disp'.last.init = "none"
              /\ disp'.slot = disp.slot
              /\ disp'.handle = disp.handle]_vars

\* an unknown identity was opened after a probe pass registered devices
C13_Witness ==
    /\ disp.last.fn = "vidcap_init"
    /\ \A i \in TableIdx : disp.ids[i] # disp.last.arg
    /\ disp.available_device_count > 0
    /\ disp.last.ret = 0 - 1

\* C14: vidcap_init on an identity of the table returns 0, -1 or 1: 0 exactly
\* when the backend's init produced a state, and then the slot holds a live
\* handle tagged VIDCAP_MAGIC with the index of the first matching entry; -1
\* when init produced nothing and 1 when it produced the no-error sentinel,
\* and in both the slot is not written and no wrapper is left. The file
\* backend gives 1 for "help" and "fullhelp" and -1 for the empty
\* configuration, without creating its worker.
C14_OpenTriState ==
    [][DispCall("vidcap_init")
       /\ (\E i \in TableIdx : disp.ids[i] = disp'.last.arg)
           => LET c == disp'.last
              IN /\ c.called = MatchIndex(disp.ids, c.arg)
                 /\ c.init \in {NULL, INIT_NOERR, INIT_STATE}
                 /\ c.ret = 0 <=> c.init = INIT_STATE
                 /\ c.ret = 0 - 1 <=> c.init = NULL
                 /\ c.ret = 1 <=> c.init = INIT_NOERR
                 /\ c.ret = 0 =>
                       /\ disp'.slot = "handle"
                       /\ disp'.handle = [st |-> "live", magic |-> VIDCAP_MAGIC,
                                          index |-> c.called]
                 /\ c.ret # 0 =>
                       /\ disp'.slot = disp.slot
                       /\ disp'.handle = disp.handle
                       /\ disp'.handle.st # "live"
                       /\ disp'.worker = disp.worker
                 /\ c.called = FileIdx /\ c.fmt \in {"help", "fullhelp"} =>
                       c.ret = 1
                 /\ c.called = FileIdx /\ c.fmt = "" => c.ret = 0 - 1]_vars

\* the file backend was asked for its help and no worker exists
C14_Witness ==
    /\ disp.last.fn = "vidcap_init"
    /\ disp.last.called = FileIdx
    /\ disp.last.fmt = "fullhelp"
    /\ disp.last.ret = 1
    /\ disp.slot = "unset"
    /\ ~disp.worker

\* the file has no packet left, the worker is paused and the queue is empty
EndOfStream ==
    /\ ~opt.loop /\ paused /\ src_pos > NbPackets
    /\ video_frame_queue = <<>>

\* C15: with loop off, the worker that reads the end of the stream sets
\* paused and does not fail; paused is cleared by nothing but a "pause"
\* message and no failure is recorded while it is set; a grab made when the
\* file is exhausted, the worker paused and the queue empty parks on
\* new_frame_ready without returning, as long as should_exit is not set;
\* and the consumer so parked returns NULL once should_exit is set.
C15_EofBlocksGrab ==
    /\ [][/\ WorkerReadEof /\ ~opt.loop =>
                paused' /\ ~failed' /\ src_pos' = src_pos
          /\ paused /\ ~paused' => WorkerMsgPause
          /\ paused => ~failed'
          /\ GrabStep /\ EndOfStream /\ ~should_exit =>
                pc'[C] = "c_wait" /\ ~failed' /\ grab_ret' = NoFrame
         ]_vars
    /\ (pc[C] = "c_wait" /\ EndOfStream /\ should_exit)
           ~> (pc[C] = "c_idle" /\ grab_ret = NoFrame)

\* every frame of the file was delivered, the worker sits on paused_cv and
\* the consumer is parked in grab
C15_Witness ==
    /\ EndOfStream /\ ~should_exit /\ ~failed
    /\ NbPackets > 0 /\ last_out.pts >= 0
    /\ pc[W] = "w_pwait" /\ pc[C] = "c_wait"

\* C16: a read error other than the end of the stream takes the worker to
\* FAIL_WORKER, which sets failed, signals new_frame_ready (making a parked
\* consumer runnable) and returns; failed is never cleared; a grab made
\* when failed is set returns NULL at once; and the worker that has hit the
\* error terminates, a consumer parked at that moment returning NULL.
C16_FatalReadError ==
    /\ [][/\ WorkerReadError => pc'[W] = "w_fail"
          /\ WorkerFail => failed'
          /\ WorkerFailSignal =>
                /\ pc'[W] = "w_done"
                /\ pc[C] = "c_wait" => pc'[C] = "c_lock"
          /\ failed => failed'
          /\ GrabStep /\ failed =>
                pc'[C] = "c_idle" /\ grab_ret' = NoFrame
         ]_vars
    /\ (pc[W] = "w_fail") ~> (pc[W] = "w_done" /\ failed)
    /\ (pc[W] = "w_fail" /\ pc[C] = "c_wait")
           ~> (pc[C] = "c_idle" /\ grab_ret = NoFrame)

\* the worker has failed and returned, nobody has asked for the exit, and
\* grab has returned NULL after having delivered a frame
C16_Witness ==
    /\ failed /\ pc[W] = "w_done" /\ ~should_exit
    /\ pc[C] = "c_idle" /\ grab_ret = NoFrame /\ last_out.pts >= 0

\* C17 (as stated): a vidcap_grab or vidcap_done on a handle that has been
\* closed, or on an object whose tag is not VIDCAP_MAGIC, aborts and reaches
\* no backend.
C17_GuardAborts ==
    disp.last.fn \in {"vidcap_grab", "vidcap_done"}
    /\ (disp.last.closed \/ ~disp.last.tag_ok)
        => /\ disp.last.outcome = "abort"
           /\ disp.last.called = NoBackend
           /\ disp.aborted

\* C18 (as stated): a vidcap_init_devices made after an earlier one, with no
\* vidcap_free_devices in between, aborts.
C18_AsStated ==
    [][DispCall("vidcap_init_devices") /\ disp.probed
           => disp'.last.outcome = "abort" /\ disp'.aborted]_vars

\* what the guard of vidcap_init_devices does ensure: the call aborts exactly
\* when the registry holds a device, so a second pass with no
\* vidcap_free_devices in between aborts whenever the first one registered a
\* device; the slots from available_device_count on are always empty;
\* vidcap_free_devices leaves the count 0 and every slot empty, and the
\* vidcap_init_devices that follows it does not abort.
ProbeGuardOnCount ==
    [][/\ DispCall("vidcap_init_devices") =>
             (disp'.last.outcome = "abort" <=> disp.available_device_count # 0)
       /\ DispCall("vidcap_init_devices") /\ disp'.last.outcome = "return" =>
             /\ disp'.last.ret = disp'.available_device_count
             /\ \A i \in TableIdx :
                  i < disp'.last.ret <=> disp'.available_devices[i] # NULL
       /\ \A i \in TableIdx :
             i >= disp'.available_device_count =>
                 disp'.available_devices[i] = NULL
       /\ DispCall("vidcap_free_devices") =>
             /\ disp'.available_device_count = 0
             /\ \A i \in TableIdx : disp'.available_devices[i] = NULL
       /\ DispCall("vidcap_init_devices")
          /\ disp.last.fn = "vidcap_free_devices" =>
             disp'.last.outcome = "return"
      ]_vars

\* C19 (as stated): vidcap_get_device_details(index) returns an entry of the
\* registry when 0 <= index < available_device_count, and aborts for every
\* other index, the negative ones included.
C19_IndexGuard ==
    [][DispCall("vidcap_get_device_details") =>
         LET c == disp'.last
         IN IF 0 <= c.arg /\ c.arg < disp.available_device_count
            THEN /\ c.outcome = "return"
                 /\ c.entry = disp.available_devices[c.arg]
                 /\ c.entry # NULL
            ELSE c.outcome = "abort" /\ disp'.aborted]_vars

\* C20: no step of the worker, the consumer, the message deliverer or the
\* shutdown callback takes should_exit from set to clear.
C20_ShouldExitMonotone == [][should_exit => should_exit']_vars

\* should_exit was set by the callback and once more by vidcap_file_done,
\* the worker has returned and the handle is closed
C20_Witness ==
    /\ should_exit /\ pc[X] = "x_end" /\ pc[C] = "c_closed"
    /\ pc[W] = "w_done" /\ released

\* C21: vidcap_file_done sets should_exit before it signals and signals
\* before it joins; the shared state is released only by vidcap_file_done,
\* after its three signals, with should_exit set and the worker returned;
\* it stays released, and no step of the worker is taken once it is.
C21_CloseOrdering ==
    [][/\ pc'[C] \in {"d_sig1", "d_sig2", "d_sig3", "d_end"} => should_exit'
       /\ ~released /\ released' =>
             /\ pc[C] = "d_end" /\ pc'[C] = "c_closed"
             /\ should_exit
             /\ pc[W] = "w_done"
       /\ released => released' /\ ~Worker
      ]_vars

\* the handle was closed after frames had been delivered, with no failure
C21_Witness ==
    /\ released /\ pc[C] = "c_closed" /\ pc[W] = "w_done"
    /\ ~failed /\ last_out.id >= 0 /\ pc[X] = "x_idle"

\* C22: no thread holds s->lock and s->audio_frame_lock together: the two
\* are never owned by the same thread, a step that takes or drops the audio
\* lock leaves s->lock alone, and the only step a thread takes while it owns
\* the audio lock is the body of vidcap_file_write_audio or of get_audio,
\* neither of which locks s->lock.
C22_LockDiscipline ==
    [][/\ \A t \in {W, C, M, X} :
             /\ ~(lock = t /\ audio_frame_lock = t)
             /\ ~(lock' = t /\ audio_frame_lock' = t)
             /\ audio_frame_lock = t /\ pc'[t] # pc[t] =>
                   \/ t = W /\ WorkerWriteAudio
                   \/ t = C /\ GetAudio
       /\ audio_frame_lock' # audio_frame_lock => lock' = lock
      ]_vars

\* the consumer is inside get_audio while the worker, holding s->lock,
\* processes messages
C22_Witness ==
    /\ audio_frame_lock = C /\ pc[C] = "c_audio"
    /\ lock = W /\ pc[W] = "w_msgs"

C24_AsStated ==
    clk.returns >= 2 => clk.ret_last - clk.ret_prev >= PacePeriod

\* C24: the clock readings with which two consecutive successful grabs left
\* their pacing loops - the values they stored in s->last_frame - are at
\* least one frame period apart, and no grab returns before the reading it
\* stored nor less than a frame period after the reading stored by the grab
\* before it.
C24_PacedStamps ==
    /\ clk.returns >= 1 => clk.ret_last >= clk.stamp_last
    /\ clk.returns >= 2 =>
          /\ clk.stamp_last - clk.stamp_prev >= PacePeriod
          /\ clk.ret_last - clk.stamp_prev >= PacePeriod

\* the second grab was called at once and returned exactly one period
\* after the first
C24_Witness ==
    /\ clk.returns >= 2 /\ clk.at = "idle"
    /\ clk.stamp_last - clk.stamp_prev = PacePeriod
    /\ clk.ret_last = clk.stamp_last

\* C25: a call of vidcap_file_init that returns VIDCAP_INIT_FAIL has not
\* written *state, has registered no callback and started no worker, holds
\* nothing any more, and has released each resource it acquired once and
\* nothing else; no resource is ever released twice, and the worker is only
\* started, and *state only written, by the call that returns
\* VIDCAP_INIT_OK.
C25_InitFailClean ==
    /\ \A r \in Resources : ini.released[r] <= 1
    /\ ini.ret = "VIDCAP_INIT_FAIL" =>
          /\ ~ini.state_written /\ ~ini.worker /\ ~ini.callback
          /\ ini.held = {}
          /\ \A r \in Resources :
                ini.released[r] = IF r \in ini.acquired THEN 1 ELSE 0
    /\ (ini.worker \/ ini.state_written) => ini.ret = "VIDCAP_INIT_OK"
    /\ ini.at = "returned" => ini.ret \in {"VIDCAP_INIT_FAIL", "VIDCAP_INIT_OK"}

\* vidcap_file_init has failed for want of a conversion, after it had opened
\* the file, the audio decoder and the video decoder
C25_Witness ==
    /\ ini.ret = "VIDCAP_INIT_FAIL"
    /\ {"fmt_ctx", "aud_ctx", "audio_frame.data", "vid_ctx"}
           \subseteq ini.acquired
    /\ "sws_ctx" \notin ini.acquired

\* C26 (as stated): the reply to a seek message is RESPONSE_OK exactly when
\* avformat_seek_file succeeded.
C26_SeekAck ==
    [][WorkerMsgSeek =>
          (seek_call'.ok <=> replies'[Len(replies')] = RESPONSE_OK)]_vars
\* the worker takes the oldest message of the module's queue and answers it,
\* holding the control lock
MsgTaken ==
    /\ pc[W] = "w_msgs" /\ lock = W
    /\ msg_queue # <<>>
    /\ msg_queue' = Tail(msg_queue)
    /\ Len(replies') = Len(replies) + 1

\* a message is delivered: it becomes the youngest of the queue
MsgQueued ==
    /\ \E t \in texts : msg_queue' = Append(msg_queue, t)
    /\ replies' = replies

\* C27: the queue of delivered messages changes only by a delivery at its
\* end or by the worker, holding the control lock, taking and answering its
\* oldest message; the worker leaves vidcap_file_process_messages only with
\* the queue empty, and it goes on to av_read_frame only from the head of
\* its loop, after every message announced by new_msg has been processed.
C27_MsgOrder ==
    [][/\ msg_queue' # msg_queue => MsgTaken \/ MsgQueued
       /\ (pc[W] = "w_msgs" /\ pc'[W] # "w_msgs") =>
              msg_queue = <<>> /\ lock = W
       /\ (pc[W] # "w_read" /\ pc'[W] = "w_read") =>
              /\ pc[W] \in {"w_lock", "w_msgs"}
              /\ new_msg => msg_queue = <<>>
      ]_vars

\* "seek 1" has been processed and "pause", delivered after it, is the next
\* message of the same pass through vidcap_file_process_messages
C27_Witness ==
    /\ pc[W] = "w_msgs" /\ lock = W
    /\ seek_call.set /\ Len(replies) = 1
    /\ msg_queue = <<T_pause>>
\* every message the worker takes from the queue gets one reply, and a
\* reply is made only for a message taken (whatever the reply says)
OneReplyPerMessage ==
    [][/\ MsgProcessed => Len(replies') = Len(replies) + 1
       /\ replies' # replies => MsgProcessed /\ SubSeq(replies', 1, Len(replies)) = replies
      ]_vars

\* C28 (as stated): a message taken from the queue is answered once, with
\* RESPONSE_OK when its text is "pause", "seek ..." or "quit" and with
\* RESPONSE_BAD_REQUEST otherwise; "quit" also requests the shutdown; no
\* reply is made without a message taken.
C28_OneReply ==
    [][/\ MsgProcessed =>
            /\ replies' = Append(replies,
                                 IF KnownText(Head(msg_queue))
                                 THEN RESPONSE_OK
                                 ELSE RESPONSE_BAD_REQUEST)
            /\ Head(msg_queue) = T_quit => exit_requested'
       /\ replies' # replies => MsgProcessed
      ]_vars
\* the entry's library opened and vidcap_fill_symbols returned FALSE for it
Rejected(d, i) ==
    /\ d.library_name[i] # NULL /\ d.lib_handle[i] # NULL
    /\ d.resolved[i] # EntryPoints

\* C29 (as stated): while a module is rejected (one of its four symbols did
\* not resolve in the last probe pass) none of its descriptors is in the
\* registry and no call - probe, open, grab or close - runs one of its
\* entry points.
C29_AllOrNothing ==
    [][\A i \in ModuleEntries :
          Rejected(disp', i) =>
             /\ \A k \in TableIdx :
                   k < disp'.available_device_count =>
                      disp'.available_devices[k] # Descriptor(i)
             /\ disp' # disp =>
                   /\ disp'.last.called # i
                   /\ i \notin disp'.last.probes]_vars
\* entry i of the table has a descriptor in the registry
Registered(i) ==
    \E k \in TableIdx :
        /\ k < disp.available_device_count
        /\ disp.available_devices[k] = Descriptor(i)

\* C30 (as stated): after a probe pass that was not ended by an assertion,
\* the identities of the registered backends are pairwise distinct (a
\* collision ends the probe pass with an assertion failure).
C30_UniqueIds ==
    disp.probed /\ ~disp.aborted =>
        \A i, j \in TableIdx :
            i # j /\ Registered(i) /\ Registered(j) =>
                disp.ids[i] # disp.ids[j]
\* C31: a vidcap_init_devices that returns leaves in the registry exactly
\* the descriptors of the entries whose func_probe returned one, in the order
\* of the table (the k-th slot holds the descriptor of the k-th such entry),
\* entries that were passed over or whose probe returned NULL leaving no
\* trace; the value returned is the number of them and equals
\* available_device_count, which is what vidcap_get_device_count returns.
C31_ProbeResult ==
    [][DispCall("vidcap_init_devices") /\ disp'.last.outcome = "return" =>
         LET f == disp'.last.found
         IN /\ f \subseteq disp'.last.probes
            /\ disp'.last.ret = Cardinality(f)
            /\ disp'.available_device_count = disp'.last.ret
            /\ \A i \in f :
                  disp'.available_devices[Cardinality({j \in f : j < i})]
                      = Descriptor(i)
            /\ \A k \in TableIdx :
                  k >= Cardinality(f) => disp'.available_devices[k] = NULL
      ]_vars

\* a probe pass in which the first entry failed its probe, the module was
\* passed over and the last entry registered
C31_Witness ==
    /\ disp.last.fn = "vidcap_init_devices" /\ disp.last.outcome = "return"
    /\ disp.last.found = {TableSize - 1}
    /\ disp.last.probes = TableIdx \ ModuleEntries
    /\ disp.available_devices[0] = Descriptor(TableSize - 1)
    /\ disp.last.ret = 1
\* the frames the backend holds: the one in the worker's hands and the ones
\* in the queue
QueuedIds(q) == {q[k].id : k \in 1..Len(q)}
BackendIds(o, q) == (IF o = NoFrame THEN {} ELSE {o.id}) \cup QueuedIds(q)

\* C32: a frame is in one place at a time - the worker's hands, one slot of
\* the queue, or the caller's hands once grab popped it - and it leaves the
\* backend in one of three ways only: grab pops it (and the backend holds it
\* no more), the worker disposes it having seen should_exit after decoding
\* it, or cleanup disposes it with the rest of the queue at close; after
\* close the backend holds no frame.
C32_FrameOwnership ==
    [][/\ \A k, l \in 1..Len(video_frame_queue') :
             k # l => video_frame_queue'[k].id # video_frame_queue'[l].id
       /\ out' # NoFrame => out'.id \notin QueuedIds(video_frame_queue')
       /\ grab_ret' # NoFrame =>
             grab_ret'.id \notin BackendIds(out', video_frame_queue')
       /\ \A id \in BackendIds(out, video_frame_queue)
                       \ BackendIds(out', video_frame_queue') :
             \/ grab_ret'.id = id /\ grab_ret # grab_ret'
                   /\ pc'[C] = "c_signal"
             \/ out.id = id /\ pc[W] = "w_qlock" /\ pc'[W] = "w_done"
                   /\ should_exit
             \/ pc[C] = "d_end" /\ pc'[C] = "c_closed"
                   /\ id \in QueuedIds(video_frame_queue)
       /\ released' => out' = NoFrame /\ video_frame_queue' = <<>>
      ]_vars

\* of three frames the first was returned by grab, the last was disposed by
\* the worker on should_exit and the second waits in the queue for cleanup
C32_Witness ==
    /\ pc[C] = "d_end" /\ pc[W] = "w_done" /\ should_exit
    /\ next_id = 3 /\ last_out.id = 0
    /\ out = NoFrame
    /\ Len(video_frame_queue) = 1
\* C33: when the worker, a decoded frame in hand, takes the queue lock
\* (coming from the decoder or woken from the full-queue wait) and
\* should_exit is set, it disposes of the frame, leaves the queue as it is
\* and returns; the queue never grows in a step taken with should_exit set.
C33_ExitDiscards ==
    [][/\ (pc[W] = "w_qlock" /\ pc'[W] # "w_qlock" /\ should_exit) =>
             /\ out # NoFrame /\ out' = NoFrame
             /\ video_frame_queue' = video_frame_queue
             /\ pc'[W] = "w_done"
       /\ Len(video_frame_queue') > Len(video_frame_queue) => ~should_exit
      ]_vars

\* the worker has returned with should_exit set, the queue is full, nothing
\* was popped, and one more frame was allocated than the queue holds: the
\* worker disposed of it
C33_Witness ==
    /\ pc[W] = "w_done" /\ should_exit /\ ~failed
    /\ QueueFull(video_frame_queue, opt.max_queue_len)
    /\ last_out.pts < 0 /\ grab_ret = NoFrame
    /\ next_id = Len(video_frame_queue) + 1
    /\ out = NoFrame
\* the worker has taken a packet from the source (av_read_frame succeeded)
PacketTaken == pc[W] = "w_read" /\ src_pos' = src_pos + 1

\* C34: the step in which the worker takes a packet never leads to the
\* failure exit, whether or not the packet decodes: either a frame was
\* decoded and goes on to the queue or the audio buffer, or nothing was (the
\* unit is skipped) and the worker is back at the head of its loop with the
\* queue, the audio buffer, the frame counter and failed as they were. The
\* failure exit is entered only from a read that took no packet.
C34_DecodeErrorSkips ==
    [][/\ PacketTaken =>
             /\ pc'[W] \in {"w_loop", "w_qlock", "w_audio"}
             /\ failed' = failed
             /\ video_frame_queue' = video_frame_queue
             /\ audio_data_len' = audio_data_len
             /\ pc'[W] # "w_qlock" => out' = out /\ next_id' = next_id
       /\ (pc[W] # "w_fail" /\ pc'[W] = "w_fail") =>
             pc[W] = "w_read" /\ src_pos' = src_pos
      ]_vars

\* with decoding on, the first video packet failed to decode (no frame was
\* made of it), and the worker went on: it now holds the frame decoded from
\* the next video packet
C34_Witness ==
    /\ ~opt.no_decode /\ ~failed
    /\ PacketKind(1) = "video"
    /\ pc[W] = "w_qlock" /\ out.id = 0 /\ out.pts > PktPts(1)
    /\ last_out.pts < 0 /\ video_frame_queue = <<>>
\* the worker, looping, has read the end of the file
LoopEof == opt.loop /\ pc[W] = "w_read" /\ src_pos > NbPackets

\* C35: with loop on, the worker that reads the end of the stream leaves
\* paused alone and either is back at the first packet, at the head of its
\* loop, or - the reposition having failed - goes to the failure exit with
\* the source where it was; from the failure exit it sets failed and
\* returns; from the end of the stream it gets to a frame in hand again or
\* to its end. With loop off the end of the stream sets paused, not failed.
C35_EofLoop ==
    /\ [][/\ WorkerReadEof /\ opt.loop =>
                /\ paused' = paused /\ failed' = failed
                /\ \/ pc'[W] = "w_loop" /\ src_pos' = 1
                   \/ pc'[W] = "w_fail" /\ src_pos' = src_pos
          /\ WorkerReadEof /\ ~opt.loop =>
                paused' /\ failed' = failed /\ pc'[W] = "w_loop"
          /\ (opt.loop /\ paused' # paused) => WorkerMsgPause
         ]_vars
    /\ (opt.loop /\ pc[W] = "w_fail") ~> (failed /\ pc[W] = "w_done")
    /\ LoopEof ~> (pc[W] \in {"w_qlock", "w_done"})

\* looping over a file of one packet the worker holds its second frame,
\* made of the first packet again, and is neither paused nor failed
C35_Witness ==
    /\ opt.loop /\ ~paused /\ ~failed /\ ~should_exit
    /\ pc[W] = "w_qlock" /\ out.id = NbPackets /\ out.pts = PktPts(1)

\* the bytes numbered from.. (len of them) in one stretch
Interval(from, len) ==
    IF len <= 0 THEN <<>> ELSE <<[from |-> from, len |-> len]>>

C37_QueueBound ==
    /\ [](opt.max_queue_len >= 0
            => simple_linked_list_size(video_frame_queue)
                   <= opt.max_queue_len + 1)
    /\ [][(opt.max_queue_len >= 0
             /\ simple_linked_list_size(video_frame_queue')
                    > simple_linked_list_size(video_frame_queue))
            => simple_linked_list_size(video_frame_queue)
                   <= opt.max_queue_len]_vars

\* with queue=0 the worker has appended one frame to the empty queue and is
\* parked with the next one in hand
C37_Witness ==
    /\ opt.max_queue_len = 0 /\ pc[W] = "w_qwait"
    /\ simple_linked_list_size(video_frame_queue) = 1
    /\ out # NoFrame
\* the worker is about to enter the queue section with a decoded frame, the
\* queue is empty and should_exit is clear
FrameForEmptyQueue ==
    /\ pc[W] = "w_qlock" /\ out # NoFrame
    /\ video_frame_queue = <<>> /\ ~should_exit

\* C38: whatever value the queue option was given, a worker holding a
\* decoded frame while the queue is empty and should_exit is clear does not
\* park in the full-queue wait, and a consumer parked in grab at that
\* moment eventually takes a frame (unless should_exit is set or the worker
\* fails).
C38_ProducerProgress ==
    /\ [][FrameForEmptyQueue => pc'[W] # "w_qwait"]_vars
    /\ (FrameForEmptyQueue /\ pc[C] = "c_wait")
           ~> (pc[C] = "c_signal" \/ should_exit \/ failed)

\* the same for the options that are not negative
C38_NonNegative ==
    /\ [][(FrameForEmptyQueue /\ opt.max_queue_len >= 0)
             => pc'[W] # "w_qwait"]_vars
    /\ (FrameForEmptyQueue /\ pc[C] = "c_wait" /\ opt.max_queue_len >= 0)
           ~> (pc[C] = "c_signal" \/ should_exit \/ failed)

\* queue=-1: worker and consumer are both parked, the queue is empty
C38_BothParked ==
    /\ opt.max_queue_len < 0 /\ pc[W] = "w_qwait" /\ pc[C] = "c_wait"
    /\ video_frame_queue = <<>> /\ out # NoFrame /\ ~should_exit /\ ~failed
\* a vidcap_init that ran the init entry point of a table entry
InitDispatched ==
    /\ DispCall("vidcap_init") /\ disp'.last.called # NoBackend

\* the entry vidcap_init dispatches to is the first one, in the order of
\* the table, whose id is the requested one
C39_FirstMatch ==
    [][InitDispatched =>
          disp'.last.called = MatchIndex(disp.ids, disp'.last.arg)]_vars

\* C39 (as stated): vidcap_init runs the init entry point of the first
\* table entry whose id is the requested one, and that entry has a
\* descriptor in the registry, put there by the probe pass in force; an
\* entry that was passed over or whose probe failed is never selected,
\* whatever id is requested and whether or not a probe pass has run.
C39_OnlyProbed ==
    [][InitDispatched =>
          /\ disp'.last.called = MatchIndex(disp.ids, disp'.last.arg)
          /\ Registered(disp'.last.called)]_vars

\* vidcap_init(0, ...) has run the init of the first entry although no
\* probe pass has run
C39_Unprobed ==
    /\ disp.last.fn = "vidcap_init" /\ disp.last.arg = 0
    /\ disp.last.called = 0 /\ ~disp.probed /\ ~Registered(0)
    /\ disp.ids[0] = 0
\* the worker thread has not ended and is not on its way out
WorkerAlive == pc[W] \notin {"w_done", "w_fail", "w_failsig"} /\ ~failed

\* vidcap_file_new_message has just set new_msg for the n-th message
Delivered(n) ==
    /\ pc[M] = "m_sig" /\ new_msg /\ MsgsSent = n
    /\ WorkerAlive /\ ~should_exit

\* C40: a message for which new_msg was set while the worker is alive and
\* should_exit is clear is eventually taken off the queue and answered
\* (unless should_exit is set or the worker fails first), the consumer
\* calling grab again and again; and a "pause", the last message sent,
\* delivered to a worker parked in the paused wait brings the worker back
\* to av_read_frame.
C40_MsgLiveness ==
    /\ \A n \in 1..MaxMsgs :
          Delivered(n) ~> (Len(replies) >= n \/ should_exit \/ ~WorkerAlive)
    /\ (/\ Delivered(msg_budget) /\ msg_queue = <<T_pause>>
        /\ paused /\ pc[W] = "w_pwait")
          ~> (pc[W] = "w_read" \/ should_exit)

\* new_msg has been set for a "pause" while the worker is parked in the
\* paused wait and paused_cv has not been signalled yet
C40_Witness ==
    /\ Delivered(1) /\ msg_queue = <<T_pause>>
    /\ paused /\ pc[W] = "w_pwait"

\* a message is delivered while the worker is parked on the full queue
C40_BusyWitness ==
    /\ Delivered(1) /\ pc[W] = "w_qwait"
    /\ simple_linked_list_size(video_frame_queue) = opt.max_queue_len + 1

=============================================================================
